---- MODULE Spec2Model ----
(***************************************************************************)
(* A model of the sentimeter analysis pipeline: the file-backed step cache *)
(* (lib/step-cache.ts), the two pipeline drivers that use it               *)
(* (jobs/daily-analysis.ts runDailyAnalysis and the API's analysis runner  *)
(* runAnalysisWithLogging) and the recommendation / job tables they write. *)
(*                                                                         *)
(* Time is the integer Date.now() gives, in milliseconds.  A calendar day  *)
(* (the yyyy-mm-dd prefix of toISOString) is the day number now \div one   *)
(* day.  A cache file name is the sequence of the pieces the template      *)
(* literal `${date}_${schedule}_step${step}.json` joins.                   *)
(***************************************************************************)
EXTENDS Integers, Sequences, FiniteSets, TLC

VARIABLES
    now,        \* Date.now(), ms
    store,      \* the step-cache directory: file name -> file content
    recs,       \* the recommendations table, in insertion order
    jobs,       \* the job_executions table, indexed by job id
    run,        \* per process: the locals of the pipeline run it executes
    last,       \* the last operation performed and what it saw
    ticks,      \* how often the clock has been advanced
    ops         \* how many cache operations the cache harness has applied

vars == <<now, store, recs, jobs, run, last, ticks, ops>>

-----------------------------------------------------------------------------
(* Bounds of the model *)

MaxTicks == 2
MaxRuns == 2
MaxCacheOps == 3

-----------------------------------------------------------------------------
(* Numbers as JavaScript has them, as far as the cache needs: a number is  *)
(* a value or NaN, and every comparison with NaN is false.                 *)

Num(v) == [nan |-> FALSE, v |-> v]
NaN == [nan |-> TRUE, v |-> 0]
Minus(a, b) == IF a.nan \/ b.nan THEN NaN ELSE Num(a.v - b.v)
Gt(a, b) == ~a.nan /\ ~b.nan /\ a.v > b.v

(* An ISO timestamp string; anything that is no timestamp parses to NaN.   *)
toISOString(t) == [valid |-> TRUE, ms |-> t]
NotATimestamp == [valid |-> FALSE, ms |-> 0]
DateGetTime(s) == IF s.valid THEN Num(s.ms) ELSE NaN

(* A value that may be null: what getStepCache resolves to.                *)
Some(x) == [some |-> TRUE, v |-> x]
Null == [some |-> FALSE, v |-> 0]
OrElse(r, default) == IF r.some THEN r.v ELSE default

-----------------------------------------------------------------------------
(* lib/step-cache.ts *)

CACHE_TTL_MS == 60 * 60 * 1000

Schedules == {"morning", "evening"}

getCachePathNoSchedule(date, schedule, step) ==
    <<date, "_", "run", "_step", step, ".json">>

getCachePath(date, schedule, step) ==
    <<date, "_", schedule, "_step", step, ".json">>

StartsWith(name, prefix) ==
    /\ Len(prefix) <= Len(name)
    /\ SubSeq(name, 1, Len(prefix)) = prefix

(* A file of the cache directory: text that parses as JSON or does not,    *)
(* and when it does, the cachedAt and data fields of the parsed object.    *)
CacheFile(cachedAt, data) == [parses |-> TRUE, cachedAt |-> cachedAt, data |-> data]
Unparseable == [parses |-> FALSE, cachedAt |-> NotATimestamp, data |-> 0]

getStepCacheExpiredOff(st, t, date, schedule, step) ==
    LET path == getCachePath(date, schedule, step) IN
    IF path \notin DOMAIN st THEN Null
    ELSE IF ~st[path].parses THEN Null
    ELSE IF ~Gt(Num(CACHE_TTL_MS), Minus(Num(t), DateGetTime(st[path].cachedAt)))
         THEN Null
    ELSE Some(st[path].data)

getStepCacheNoTTL(st, t, date, schedule, step) ==
    LET path == getCachePath(date, schedule, step) IN
    IF path \notin DOMAIN st THEN Null
    ELSE IF ~st[path].parses THEN Null
    ELSE Some(st[path].data)

getStepCache(st, t, date, schedule, step) ==
    LET path == getCachePath(date, schedule, step) IN
    IF path \notin DOMAIN st THEN Null
    ELSE IF ~st[path].parses THEN Null
    ELSE LET age == Minus(Num(t), DateGetTime(st[path].cachedAt)) IN
         IF Gt(age, Num(CACHE_TTL_MS)) THEN Null
         ELSE Some(st[path].data)

setStepCache(st, t, date, schedule, step, data) ==
    LET path == getCachePath(date, schedule, step) IN
    [p \in DOMAIN st \cup {path} |->
        IF p = path THEN CacheFile(toISOString(t), data) ELSE st[p]]

RECURSIVE ResumeScan(_, _, _, _, _, _)
ResumeScan(st, t, date, schedule, totalSteps, step) ==
    IF step > totalSteps THEN totalSteps + 1
    ELSE IF ~getStepCache(st, t, date, schedule, step).some THEN step
    ELSE ResumeScan(st, t, date, schedule, totalSteps, step + 1)

getResumeStepAllCached(st, t, date, schedule, totalSteps) ==
    LET r == ResumeScan(st, t, date, schedule, totalSteps, 1) IN
    IF r = totalSteps + 1 THEN totalSteps ELSE r

getResumeStepAfterLast(st, t, date, schedule, totalSteps) ==
    LET cached == {k \in 1..totalSteps :
                      getStepCache(st, t, date, schedule, k).some}
    IN IF cached = {} THEN 1
       ELSE (CHOOSE k \in cached : \A j \in cached : j <= k) + 1

IsEmptyPayload(step, data) ==
    CASE step = 1 -> data.totalNewArticles = 0
      [] step = 2 -> data.tickers = <<>>
      [] OTHER -> data = <<>>

RECURSIVE ResumeScanNonEmpty(_, _, _, _, _, _)
ResumeScanNonEmpty(st, t, date, schedule, totalSteps, step) ==
    IF step > totalSteps THEN totalSteps + 1
    ELSE IF ~getStepCache(st, t, date, schedule, step).some THEN step
    ELSE IF IsEmptyPayload(step, getStepCache(st, t, date, schedule, step).v) THEN step
    ELSE ResumeScanNonEmpty(st, t, date, schedule, totalSteps, step + 1)

getResumeStepNonEmpty(st, t, date, schedule, totalSteps) ==
    ResumeScanNonEmpty(st, t, date, schedule, totalSteps, 1)

getResumeStep(st, t, date, schedule, totalSteps) ==
    ResumeScan(st, t, date, schedule, totalSteps, 1)

clearStepCacheDateOnly(st, date, schedule) ==
    LET prefix == <<date, "_">> IN
    [p \in {q \in DOMAIN st : ~StartsWith(q, prefix)} |-> st[p]]

clearStepCacheDashPrefix(st, date, schedule) ==
    LET prefix == <<date, "-", schedule, "_step">> IN
    [p \in {q \in DOMAIN st : ~StartsWith(q, prefix)} |-> st[p]]

clearStepCache(st, date, schedule) ==
    LET prefix == <<date, "_", schedule, "_step">> IN
    [p \in {q \in DOMAIN st : ~StartsWith(q, prefix)} |-> st[p]]

-----------------------------------------------------------------------------
(* Calendar *)

MS_PER_DAY == 24 * 60 * 60 * 1000
TICK_MS == 45 * 60 * 1000

(* new Date().toISOString().slice(0, 10): the UTC calendar day, as its day *)
(* number.                                                                 *)
ISODate(t) == t \div MS_PER_DAY

(* The clock moves in steps of three quarters of an hour.                  *)
TickDeltas == {TICK_MS}

-----------------------------------------------------------------------------
(* Collaborators: what the crawler, the extraction and the scoring model   *)
(* can answer.  Sentiment and relevance are in hundredths.                 *)

Tickers == {"BBCA", "TLKM", "ADRO", "GOTO", "ASII", "UNVR"}

(* priceMap of a tracking pass: the quotes fetched, 0 for every other      *)
(* ticker.                                                                 *)
PriceMapOf(quotes) == [t \in Tickers |-> IF t \in DOMAIN quotes THEN quotes[t] ELSE 0]

ToUpperCase(s) == CASE s = "bbca" -> "BBCA" [] s = "tlkm" -> "TLKM" [] OTHER -> s

ExtractedTicker(t, s, r) == [ticker |-> t, sentiment |-> s, relevance |-> r]

CrawlResults == {[totalNewArticles |-> 2, successfulPortals |-> 1]}

NoCrawl == [totalNewArticles |-> 0, successfulPortals |-> 0]

ExtractionResults ==
    { [tickers |-> <<>>, articlesAnalyzed |-> 2],
      [tickers |-> <<ExtractedTicker("TLKM", 15, 90), ExtractedTicker("BBCA", 50, 80)>>,
       articlesAnalyzed |-> 2] }

NoExtraction == [tickers |-> <<>>, articlesAnalyzed |-> 0]

(* analyzeStock's answers: null, or an action with a score and a plan.     *)
Analysis(action, score) ==
    [isNull |-> FALSE, action |-> action, overallScore |-> score,
     entryPrice |-> 9500, stopLoss |-> 9200, targetPrice |-> 10200, maxHoldDays |-> 1]
NullAnalysis ==
    [isNull |-> TRUE, action |-> "HOLD", overallScore |-> 0,
     entryPrice |-> 0, stopLoss |-> 0, targetPrice |-> 0, maxHoldDays |-> 0]
BuyAnalysis == Analysis("BUY", 70)
AvoidAnalysis == Analysis("AVOID", 40)
HoldAnalysis == Analysis("HOLD", 70)
AnalysisResults ==
    {NullAnalysis, Analysis("BUY", 70), Analysis("BUY", 60), Analysis("HOLD", 70),
     Analysis("AVOID", 40)}

(* Quotes the market-data client can return in a tracking pass.            *)
Prices == {9400, 10250}

-----------------------------------------------------------------------------
(* lib/database/queries.ts: the recommendations and job_executions tables  *)

OpenStatuses == {"pending", "entry_hit"}

getActiveRecommendations(rs) ==
    {i \in 1..Len(rs) : rs[i].status \in OpenStatuses}

getActiveTickers(rs) ==
    {rs[i].ticker : i \in getActiveRecommendations(rs)}

insertRecommendation(rs, ticker, date, a, job) ==
    Append(rs, [ticker |-> ticker, recommendationDate |-> date,
                entryPrice |-> a.entryPrice, stopLoss |-> a.stopLoss,
                targetPrice |-> a.targetPrice, maxHoldDays |-> a.maxHoldDays,
                status |-> "pending", exitPrice |-> 0, hasPnl |-> FALSE, pnlBp |-> 0,
                byJob |-> job])

startJobExecution(js, schedule, date, kind, force) ==
    Append(js, [schedule |-> schedule, executionDate |-> date, status |-> "running",
                kind |-> kind, force |-> force])

completeJobExecution(js, id) == [js EXCEPT ![id].status = "completed"]

failJobExecution(js, id) == [js EXCEPT ![id].status = "failed"]

hasJobRunToday(js, schedule, today) ==
    \E i \in 1..Len(js) :
        /\ js[i].schedule = schedule
        /\ js[i].executionDate = today
        /\ js[i].status = "completed"

-----------------------------------------------------------------------------
(* lib/prediction-tracker: one tracking pass over the open recommendations *)

calculateDaysActive(recommendationDate, t) == ISODate(t) - recommendationDate

(* (currentPrice - entryPrice) / entryPrice * 100, kept in hundredths of a *)
(* percent.                                                                *)
calculatePnlPct(entryPrice, currentPrice) ==
    ((currentPrice - entryPrice) * 10000) \div entryPrice

checkStatusChangeStopFirst(rec, currentPrice, daysActive) ==
    IF rec.status = "pending" THEN
        IF currentPrice <= rec.entryPrice THEN "entry_hit"
        ELSE IF daysActive > rec.maxHoldDays THEN "expired"
        ELSE "none"
    ELSE IF rec.status = "entry_hit" THEN
        IF currentPrice <= rec.stopLoss THEN "sl_hit"
        ELSE IF currentPrice >= rec.targetPrice THEN "target_hit"
        ELSE IF daysActive > rec.maxHoldDays THEN "expired"
        ELSE "none"
    ELSE "none"

checkStatusChange(rec, currentPrice, daysActive) ==
    IF rec.status = "pending" THEN
        IF currentPrice <= rec.entryPrice THEN "entry_hit"
        ELSE IF daysActive > rec.maxHoldDays THEN "expired"
        ELSE "none"
    ELSE IF rec.status = "entry_hit" THEN
        IF currentPrice >= rec.targetPrice THEN "target_hit"
        ELSE IF currentPrice <= rec.stopLoss THEN "sl_hit"
        ELSE IF daysActive > rec.maxHoldDays THEN "expired"
        ELSE "none"
    ELSE "none"

updateRecommendationStatus(rec, newStatus, currentPrice, hasPnl, pnl) ==
    [rec EXCEPT !.status = newStatus, !.exitPrice = currentPrice,
                !.hasPnl = hasPnl, !.pnlBp = pnl]

updateAllPredictionsByTicker(rs, t, priceMap) ==
    LET activeRecs == getActiveRecommendations(rs)
        change(j) == checkStatusChange(rs[j], priceMap[rs[j].ticker],
                         calculateDaysActive(rs[j].recommendationDate, t))
        changed(i) == {j \in activeRecs : /\ rs[j].ticker = rs[i].ticker
                                          /\ priceMap[rs[j].ticker] # 0
                                          /\ change(j) # "none"}
    IN [i \in 1..Len(rs) |->
           IF changed(i) = {} THEN rs[i]
           ELSE LET j == CHOOSE k \in changed(i) : \A m \in changed(i) : m <= k
                    currentPrice == priceMap[rs[j].ticker]
                IN IF rs[j].status = "entry_hit"
                   THEN updateRecommendationStatus(rs[i], change(j), currentPrice, TRUE,
                            calculatePnlPct(rs[j].entryPrice, currentPrice))
                   ELSE updateRecommendationStatus(rs[i], change(j), currentPrice,
                                                   FALSE, 0)]

updateAllPredictionsNoPriceGuard(rs, t, priceMap) ==
    LET activeRecs == getActiveRecommendations(rs) IN
    [i \in 1..Len(rs) |->
        IF i \notin activeRecs THEN rs[i]
        ELSE LET currentPrice == priceMap[rs[i].ticker]
                 newStatus == checkStatusChange(rs[i], currentPrice,
                                  calculateDaysActive(rs[i].recommendationDate, t))
                 wasEntered == rs[i].status = "entry_hit"
                 isTerminal == newStatus \in {"target_hit", "sl_hit", "expired"}
             IN IF newStatus = "none" THEN rs[i]
                ELSE IF wasEntered /\ isTerminal
                     THEN updateRecommendationStatus(rs[i], newStatus, currentPrice, TRUE,
                              calculatePnlPct(rs[i].entryPrice, currentPrice))
                     ELSE updateRecommendationStatus(rs[i], newStatus, currentPrice, FALSE, 0)]

updateAllPredictionsAlwaysPnl(rs, t, priceMap) ==
    LET activeRecs == getActiveRecommendations(rs) IN
    [i \in 1..Len(rs) |->
        IF i \notin activeRecs \/ priceMap[rs[i].ticker] = 0 THEN rs[i]
        ELSE LET currentPrice == priceMap[rs[i].ticker]
                 newStatus == checkStatusChange(rs[i], currentPrice,
                                  calculateDaysActive(rs[i].recommendationDate, t))
                 isTerminal == newStatus \in {"target_hit", "sl_hit", "expired"}
             IN IF newStatus = "none" THEN rs[i]
                ELSE IF isTerminal
                     THEN updateRecommendationStatus(rs[i], newStatus, currentPrice, TRUE,
                              calculatePnlPct(rs[i].entryPrice, currentPrice))
                     ELSE updateRecommendationStatus(rs[i], newStatus, currentPrice, FALSE, 0)]

updateAllPredictionsAllOrNothing(rs, t, priceMap) ==
    LET activeRecs == getActiveRecommendations(rs) IN
    IF \E i \in activeRecs : priceMap[rs[i].ticker] = 0 THEN rs ELSE
    [i \in 1..Len(rs) |->
        IF i \notin activeRecs \/ priceMap[rs[i].ticker] = 0 THEN rs[i]
        ELSE LET currentPrice == priceMap[rs[i].ticker]
                 newStatus == checkStatusChange(rs[i], currentPrice,
                                  calculateDaysActive(rs[i].recommendationDate, t))
                 wasEntered == rs[i].status = "entry_hit"
                 isTerminal == newStatus \in {"target_hit", "sl_hit", "expired"}
             IN IF newStatus = "none" THEN rs[i]
                ELSE IF wasEntered /\ isTerminal
                     THEN updateRecommendationStatus(rs[i], newStatus, currentPrice, TRUE,
                              calculatePnlPct(rs[i].entryPrice, currentPrice))
                     ELSE updateRecommendationStatus(rs[i], newStatus, currentPrice, FALSE, 0)]

updateAllPredictionsToTheEnd(rs, t, priceMap) ==
    LET activeRecs == getActiveRecommendations(rs) IN
    [i \in 1..Len(rs) |->
        IF i \notin activeRecs \/ priceMap[rs[i].ticker] = 0 THEN rs[i]
        ELSE LET currentPrice == priceMap[rs[i].ticker]
                 daysActive == calculateDaysActive(rs[i].recommendationDate, t)
                 firstStatus == checkStatusChange(rs[i], currentPrice, daysActive)
                 nextStatus == checkStatusChange([rs[i] EXCEPT !.status = firstStatus],
                                                 currentPrice, daysActive)
                 newStatus == IF firstStatus = "entry_hit" /\ nextStatus # "none"
                              THEN nextStatus ELSE firstStatus
                 wasEntered == rs[i].status = "entry_hit"
                 isTerminal == newStatus \in {"target_hit", "sl_hit", "expired"}
             IN IF newStatus = "none" THEN rs[i]
                ELSE IF wasEntered /\ isTerminal
                     THEN updateRecommendationStatus(rs[i], newStatus, currentPrice, TRUE,
                              calculatePnlPct(rs[i].entryPrice, currentPrice))
                     ELSE updateRecommendationStatus(rs[i], newStatus, currentPrice, FALSE, 0)]

(* priceMap gives each ticker a quote, or 0 when none could be fetched.    *)
updateAllPredictions(rs, t, priceMap) ==
    LET activeRecs == getActiveRecommendations(rs) IN
    [i \in 1..Len(rs) |->
        IF i \notin activeRecs \/ priceMap[rs[i].ticker] = 0 THEN rs[i]
        ELSE LET currentPrice == priceMap[rs[i].ticker]
                 newStatus == checkStatusChange(rs[i], currentPrice,
                                  calculateDaysActive(rs[i].recommendationDate, t))
                 wasEntered == rs[i].status = "entry_hit"
                 isTerminal == newStatus \in {"target_hit", "sl_hit", "expired"}
             IN IF newStatus = "none" THEN rs[i]
                ELSE IF wasEntered /\ isTerminal
                     THEN updateRecommendationStatus(rs[i], newStatus, currentPrice, TRUE,
                              calculatePnlPct(rs[i].entryPrice, currentPrice))
                     ELSE updateRecommendationStatus(rs[i], newStatus, currentPrice, FALSE, 0)]

(* activeRecs.map((r) => r.ticker), from the recommendation numbered i on. *)
RECURSIVE ActiveTickersFrom(_, _)
ActiveTickersFrom(rs, i) ==
    IF i > Len(rs) THEN <<>>
    ELSE IF i \in getActiveRecommendations(rs)
         THEN <<rs[i].ticker>> \o ActiveTickersFrom(rs, i + 1)
    ELSE ActiveTickersFrom(rs, i + 1)

(* [...new Set(list)]: the first occurrence of each element, in order.     *)
RECURSIVE SpreadSet(_)
SpreadSet(list) ==
    IF list = <<>> THEN <<>>
    ELSE LET front == SpreadSet(SubSeq(list, 1, Len(list) - 1))
             x == list[Len(list)]
         IN IF \E n \in 1..Len(front) : front[n] = x THEN front
            ELSE Append(front, x)

TickersToFetchPerRec(rs) == ActiveTickersFrom(rs, 1)

(* The tickers fetchCurrentQuote is called for, in the order of the calls. *)
TickersToFetch(rs) == SpreadSet(ActiveTickersFrom(rs, 1))

(* The statusUpdates of the pass, in the order of activeRecs, from the     *)
(* recommendation numbered i on.                                           *)
RECURSIVE StatusUpdatesFrom(_, _, _, _)
StatusUpdatesFrom(rs, t, priceMap, i) ==
    IF i > Len(rs) THEN <<>>
    ELSE LET currentPrice == priceMap[rs[i].ticker]
             newStatus == checkStatusChange(rs[i], currentPrice,
                              calculateDaysActive(rs[i].recommendationDate, t))
             rest == StatusUpdatesFrom(rs, t, priceMap, i + 1)
         IN IF i \notin getActiveRecommendations(rs) \/ currentPrice = 0
               \/ newStatus = "none"
            THEN rest
            ELSE <<[id |-> i, ticker |-> rs[i].ticker, previousStatus |-> rs[i].status,
                    newStatus |-> newStatus, price |-> currentPrice]>> \o rest

(* The TrackingResult updateAllPredictions returns.                        *)
TrackingResult(rs, t, priceMap) ==
    LET statusUpdates == StatusUpdatesFrom(rs, t, priceMap, 1) IN
    [checked |-> Cardinality(getActiveRecommendations(rs)),
     updated |-> Len(statusUpdates),
     statusUpdates |-> statusUpdates]

NoTrackingResult == [checked |-> 0, updated |-> 0, statusUpdates |-> <<>>]

-----------------------------------------------------------------------------
(* Step 3 of the pipeline: the ranking of the extracted tickers            *)

MIN_SENTIMENT == 20
TOP_TICKERS == 10

(* The sort comparator: b.relevance - a.relevance || b.sentiment - a.sentiment *)
CompareTickers(a, b) ==
    IF b.relevance - a.relevance # 0 THEN b.relevance - a.relevance
    ELSE b.sentiment - a.sentiment

RECURSIVE InsertSorted(_, _)
InsertSorted(s, x) ==
    IF Len(s) = 0 THEN <<x>>
    ELSE IF CompareTickers(Head(s), x) <= 0 THEN <<Head(s)>> \o InsertSorted(Tail(s), x)
    ELSE <<x>> \o s

RECURSIVE SortTickers(_)
SortTickers(s) ==
    IF Len(s) = 0 THEN <<>>
    ELSE InsertSorted(SortTickers(SubSeq(s, 1, Len(s) - 1)), s[Len(s)])

Slice(s, n) == SubSeq(s, 1, IF Len(s) < n THEN Len(s) ELSE n)

RankTickersKeepActive(tickers, activeTickers) ==
    LET positive(t) == t.sentiment > MIN_SENTIMENT
    IN Slice(SortTickers(SelectSeq(tickers, positive)), TOP_TICKERS)

RankTickers(tickers, activeTickers) ==
    LET positive(t) == t.sentiment > MIN_SENTIMENT
        notActive(t) == ToUpperCase(t.ticker) \notin activeTickers
    IN Slice(SortTickers(SelectSeq(SelectSeq(tickers, positive), notActive)), TOP_TICKERS)

-----------------------------------------------------------------------------
(* The pipeline: runDailyAnalysis (kind "daily") and runAnalysisWithLogging *)
(* (kind "logging").  Each action is one step of a run, from one await to  *)
(* the next.                                                               *)

MIN_OVERALL_SCORE == 65
MAX_RECOMMENDATIONS_PER_RUN == 5
CACHEABLE_STEPS == 3

Procs == {"p1", "p2"}
Kinds == {"daily", "logging"}

(* The positions of a run inside its try block.                            *)
TryPcs == {"step1", "step2", "step3", "step4", "loop", "step5", "step6",
           "clear", "complete", "endJob"}

IdleRun ==
    [pc |-> "idle", kind |-> "daily", schedule |-> "morning", force |-> FALSE,
     today |-> 0, jobId |-> 0, resumeFrom |-> 0,
     crawlStats |-> NoCrawl, tickerResult |-> NoExtraction, topTickers |-> <<>>,
     idx |-> 0, nrec |-> 0, errors |-> <<>>,
     executed |-> {}, deleted |-> {}, validAtStart |-> {},
     ran |-> {}, touched |-> {}, outlook |-> "none",
     seen |-> <<>>, avoided |-> {}, defaulted |-> {},
     trail |-> <<>>]

(* What a call of the driver gave back to its caller: nothing yet, a       *)
(* JobResult, or the plain return of runAnalysisWithLogging.               *)
NoResult ==
    [value |-> "none", success |-> FALSE, articlesProcessed |-> 0, tickersFound |-> 0,
     recommendationsGenerated |-> 0, errors |-> <<>>]

JobResult(success, articles, tickers, recommendations, errors) ==
    [value |-> "result", success |-> success, articlesProcessed |-> articles,
     tickersFound |-> tickers, recommendationsGenerated |-> recommendations,
     errors |-> errors]

VoidResult == [NoResult EXCEPT !.value = "void"]

Event(ev, r, step, ticker) ==
    [ev |-> ev, job |-> r.jobId, date |-> r.today, schedule |-> r.schedule,
     step |-> step, ticker |-> ticker, before |-> <<>>, deleted |-> r.deleted,
     result |-> NoResult]

NoEvent == Event("init", IdleRun, 0, "")

(* The steps whose file, at time t, is a cache entry no older than the TTL. *)
ValidEntries(st, t, date, schedule) ==
    {k \in 1..CACHEABLE_STEPS :
        /\ getCachePath(date, schedule, k) \in DOMAIN st
        /\ st[getCachePath(date, schedule, k)].parses
        /\ st[getCachePath(date, schedule, k)].cachedAt.valid
        /\ t - st[getCachePath(date, schedule, k)].cachedAt.ms <= CACHE_TTL_MS}

(* A run is in flight for the RunKey (date, schedule).                     *)
InFlight(date, schedule) ==
    \E q \in Procs : /\ run[q].pc # "idle"
                     /\ run[q].today = date
                     /\ run[q].schedule = schedule

(* The steps whose entry getResumeStep reads when it answers resume.       *)
StepsScanned(resume) ==
    1..(IF resume > CACHEABLE_STEPS THEN CACHEABLE_STEPS ELSE resume)

(* Entry of both drivers, up to and including the resume query; maxRuns    *)
(* bounds the number of jobs started.                                      *)
StartRunWithinStartsJobFirst(p, kind, schedule, force, maxRuns) ==
    LET today == ISODate(now) IN
    /\ run[p].pc = "idle"
    /\ Len(jobs) < maxRuns
    /\ kind = "logging" => ~force
    /\ ~InFlight(today, schedule)
    /\ IF kind = "daily" /\ ~force /\ hasJobRunToday(jobs, schedule, today)
       THEN /\ last' = [Event("skipped", IdleRun, 0, "") EXCEPT
                           !.date = today, !.schedule = schedule,
                           !.result = JobResult(FALSE, 0, 0, 0, <<"already completed">>)]
            /\ jobs' = startJobExecution(jobs, schedule, today, kind, force)
            /\ UNCHANGED run
       ELSE LET r == [IdleRun EXCEPT
                         !.pc = "step1", !.kind = kind, !.schedule = schedule,
                         !.force = force, !.today = today, !.jobId = Len(jobs) + 1,
                         !.resumeFrom = getResumeStep(store, now, today, schedule,
                                                      CACHEABLE_STEPS),
                         !.validAtStart = ValidEntries(store, now, today, schedule),
                         !.touched = StepsScanned(getResumeStep(store, now, today,
                                                      schedule, CACHEABLE_STEPS))]
            IN /\ jobs' = startJobExecution(jobs, schedule, today, kind, force)
               /\ run' = [run EXCEPT ![p] = r]
               /\ last' = Event("start", r, 0, "")
    /\ UNCHANGED <<now, store, recs, ticks, ops>>

StartCallLoggingStartsOver(p, kind, schedule, force, maxRuns) ==
    LET today == ISODate(now) IN
    /\ run[p].pc = "idle"
    /\ Len(jobs) < maxRuns
    /\ kind = "logging" => ~force
    /\ IF kind = "daily" /\ ~force /\ hasJobRunToday(jobs, schedule, today)
       THEN /\ last' = [Event("skipped", IdleRun, 0, "") EXCEPT
                           !.date = today, !.schedule = schedule,
                           !.result = JobResult(FALSE, 0, 0, 0, <<"already completed">>)]
            /\ UNCHANGED <<jobs, run>>
       ELSE LET r == [IdleRun EXCEPT
                         !.pc = "step1", !.kind = kind, !.schedule = schedule,
                         !.force = force, !.today = today, !.jobId = Len(jobs) + 1,
                         !.resumeFrom = IF kind = "logging" THEN 1
                                       ELSE getResumeStep(store, now, today, schedule,
                                                          CACHEABLE_STEPS),
                         !.validAtStart = ValidEntries(store, now, today, schedule),
                         !.touched = StepsScanned(getResumeStep(store, now, today,
                                                      schedule, CACHEABLE_STEPS))]
            IN /\ jobs' = startJobExecution(jobs, schedule, today, kind, force)
               /\ run' = [run EXCEPT ![p] = r]
               /\ last' = Event("start", r, 0, "")
    /\ UNCHANGED <<now, store, recs, ticks, ops>>

(* A call of runDailyAnalysis or runAnalysisWithLogging up to its first     *)
(* await: the guard, startJobExecution and getResumeStep.                  *)
StartCall(p, kind, schedule, force, maxRuns) ==
    LET today == ISODate(now) IN
    /\ run[p].pc = "idle"
    /\ Len(jobs) < maxRuns
    /\ kind = "logging" => ~force
    /\ IF kind = "daily" /\ ~force /\ hasJobRunToday(jobs, schedule, today)
       THEN /\ last' = [Event("skipped", IdleRun, 0, "") EXCEPT
                           !.date = today, !.schedule = schedule,
                           !.result = JobResult(FALSE, 0, 0, 0, <<"already completed">>)]
            /\ UNCHANGED <<jobs, run>>
       ELSE LET r == [IdleRun EXCEPT
                         !.pc = "step1", !.kind = kind, !.schedule = schedule,
                         !.force = force, !.today = today, !.jobId = Len(jobs) + 1,
                         !.resumeFrom = getResumeStep(store, now, today, schedule,
                                                      CACHEABLE_STEPS),
                         !.validAtStart = ValidEntries(store, now, today, schedule),
                         !.touched = StepsScanned(getResumeStep(store, now, today,
                                                      schedule, CACHEABLE_STEPS))]
            IN /\ jobs' = startJobExecution(jobs, schedule, today, kind, force)
               /\ run' = [run EXCEPT ![p] = r]
               /\ last' = Event("start", r, 0, "")
    /\ UNCHANGED <<now, store, recs, ticks, ops>>

(* A call made while no run of its RunKey is in flight.                    *)
StartRunWithin(p, kind, schedule, force, maxRuns) ==
    /\ ~InFlight(ISODate(now), schedule)
    /\ StartCall(p, kind, schedule, force, maxRuns)

StartRun(p, kind, schedule, force) ==
    StartRunWithin(p, kind, schedule, force, MaxRuns)

(* Step 1: crawl, or replay the cached crawl statistics; crawls are the    *)
(* summaries crawlAllPortals can answer.                                   *)
Step1Crawling(p, crawls) ==
    LET r == run[p] IN
    /\ r.pc = "step1"
    /\ IF r.resumeFrom <= 1
       THEN \E c \in crawls :
              /\ store' = setStepCache(store, now, r.today, r.schedule, 1, c)
              /\ run' = [run EXCEPT ![p].pc = "step2", ![p].crawlStats = c,
                                    ![p].executed = @ \cup {1},
                                    ![p].touched = @ \cup {1},
                          ![p].trail = Append(@, 1)]
              /\ last' = Event("exec", r, 1, "")
       ELSE /\ run' = [run EXCEPT ![p].pc = "step2",
                          ![p].crawlStats =
                              OrElse(getStepCache(store, now, r.today, r.schedule, 1), NoCrawl),
                          ![p].touched = @ \cup {1},
                          ![p].trail = Append(@, 1),
                          ![p].defaulted =
                              IF getStepCache(store, now, r.today, r.schedule, 1).some
                              THEN @ ELSE @ \cup {1}]
            /\ last' = Event("replay", r, 1, "")
            /\ UNCHANGED store
    /\ UNCHANGED <<now, recs, jobs, ticks, ops>>

Step1(p) == Step1Crawling(p, CrawlResults)

(* Step 2: extract tickers, or replay the cached extraction.               *)
Step2(p) ==
    LET r == run[p] IN
    /\ r.pc = "step2"
    /\ IF r.resumeFrom <= 2
       THEN \E x \in ExtractionResults :
              /\ store' = setStepCache(store, now, r.today, r.schedule, 2, x)
              /\ run' = [run EXCEPT ![p].pc = "step3", ![p].tickerResult = x,
                                    ![p].executed = @ \cup {2},
                                    ![p].touched = @ \cup {2},
                          ![p].trail = Append(@, 2)]
              /\ last' = Event("exec", r, 2, "")
       ELSE /\ run' = [run EXCEPT ![p].pc = "step3",
                          ![p].tickerResult =
                              OrElse(getStepCache(store, now, r.today, r.schedule, 2),
                                     NoExtraction),
                          ![p].touched = @ \cup {2},
                          ![p].trail = Append(@, 2),
                          ![p].defaulted =
                              IF getStepCache(store, now, r.today, r.schedule, 2).some
                              THEN @ ELSE @ \cup {2}]
            /\ last' = Event("replay", r, 2, "")
            /\ UNCHANGED store
    /\ UNCHANGED <<now, recs, jobs, ticks, ops>>

Step3ReplayRequired(p) ==
    LET r == run[p] IN
    /\ r.pc = "step3"
    /\ IF r.resumeFrom <= 3
       THEN LET top == RankTickers(r.tickerResult.tickers, getActiveTickers(recs)) IN
              /\ store' = setStepCache(store, now, r.today, r.schedule, 3, top)
              /\ run' = [run EXCEPT ![p].pc = "step4", ![p].topTickers = top,
                                    ![p].executed = @ \cup {3},
                                    ![p].touched = @ \cup {3},
                          ![p].trail = Append(@, 3)]
              /\ last' = Event("exec", r, 3, "")
       ELSE /\ run' = [run EXCEPT ![p].pc =
                              IF getStepCache(store, now, r.today, r.schedule, 3).some
                              THEN "step4" ELSE "catch",
                          ![p].topTickers =
                              OrElse(getStepCache(store, now, r.today, r.schedule, 3), <<>>),
                          ![p].touched = @ \cup {3},
                          ![p].trail = Append(@, 3),
                          ![p].defaulted =
                              IF getStepCache(store, now, r.today, r.schedule, 3).some
                              THEN @ ELSE @ \cup {3}]
            /\ last' = Event("replay", r, 3, "")
            /\ UNCHANGED store
    /\ UNCHANGED <<now, recs, jobs, ticks, ops>>

Step3ByOwnEntry(p) ==
    LET r == run[p] IN
    /\ r.pc = "step3"
    /\ IF ~getStepCache(store, now, r.today, r.schedule, 3).some
       THEN LET top == RankTickers(r.tickerResult.tickers, getActiveTickers(recs)) IN
              /\ store' = setStepCache(store, now, r.today, r.schedule, 3, top)
              /\ run' = [run EXCEPT ![p].pc = "step4", ![p].topTickers = top,
                                    ![p].executed = @ \cup {3},
                                    ![p].touched = @ \cup {3},
                          ![p].trail = Append(@, 3)]
              /\ last' = Event("exec", r, 3, "")
       ELSE /\ run' = [run EXCEPT ![p].pc = "step4",
                          ![p].topTickers =
                              OrElse(getStepCache(store, now, r.today, r.schedule, 3), <<>>),
                          ![p].touched = @ \cup {3},
                          ![p].trail = Append(@, 3),
                          ![p].defaulted =
                              IF getStepCache(store, now, r.today, r.schedule, 3).some
                              THEN @ ELSE @ \cup {3}]
            /\ last' = Event("replay", r, 3, "")
            /\ UNCHANGED store
    /\ UNCHANGED <<now, recs, jobs, ticks, ops>>

(* Step 3: rank the tickers, or replay the cached ranked list.             *)
Step3(p) ==
    LET r == run[p] IN
    /\ r.pc = "step3"
    /\ IF r.resumeFrom <= 3
       THEN LET top == RankTickers(r.tickerResult.tickers, getActiveTickers(recs)) IN
              /\ store' = setStepCache(store, now, r.today, r.schedule, 3, top)
              /\ run' = [run EXCEPT ![p].pc = "step4", ![p].topTickers = top,
                                    ![p].executed = @ \cup {3},
                                    ![p].touched = @ \cup {3},
                          ![p].trail = Append(@, 3)]
              /\ last' = Event("exec", r, 3, "")
       ELSE /\ run' = [run EXCEPT ![p].pc = "step4",
                          ![p].topTickers =
                              OrElse(getStepCache(store, now, r.today, r.schedule, 3), <<>>),
                          ![p].touched = @ \cup {3},
                          ![p].trail = Append(@, 3),
                          ![p].defaulted =
                              IF getStepCache(store, now, r.today, r.schedule, 3).some
                              THEN @ ELSE @ \cup {3}]
            /\ last' = Event("replay", r, 3, "")
            /\ UNCHANGED store
    /\ UNCHANGED <<now, recs, jobs, ticks, ops>>

Step4StartsAtSecond(p) ==
    LET r == run[p] IN
    /\ r.pc = "step4"
    /\ run' = [run EXCEPT ![p].pc = "loop", ![p].idx = 2, ![p].nrec = 0]
    /\ last' = Event("step4", r, 4, "")
    /\ UNCHANGED <<now, store, recs, jobs, ticks, ops>>

(* Step 4, set-up: the tracked predictions are read, the loop starts.      *)
Step4(p) ==
    LET r == run[p] IN
    /\ r.pc = "step4"
    /\ run' = [run EXCEPT ![p].pc = "loop", ![p].idx = 1, ![p].nrec = 0]
    /\ last' = Event("step4", r, 4, "")
    /\ UNCHANGED <<now, store, recs, jobs, ticks, ops>>

(* The test of step 4 that decides whether a recommendation is saved.      *)
QualifiesAnyBuy(analysis) ==
    ~analysis.isNull /\ analysis.action = "BUY"

Qualifies(analysis) ==
    /\ ~analysis.isNull
    /\ analysis.overallScore >= MIN_OVERALL_SCORE
    /\ analysis.action = "BUY"

(* The test of runAnalysisWithLogging that puts a ticker which was not     *)
(* saved on the avoid list.                                                *)
AvoidsLowScore(analysis) ==
    ~analysis.isNull /\ (analysis.action = "AVOID" \/ analysis.overallScore < MIN_OVERALL_SCORE)

Avoids(analysis) ==
    ~analysis.isNull /\ analysis.action = "AVOID"

(* lib/avoid-cache: the tickers of the avoid list, which                   *)
(* runAnalysisWithLogging empties when it starts.                          *)
addAvoidItem(items, ticker) == (items \ {ticker}) \cup {ticker}

(* The pause at the end of an iteration that ran to the end of its try.    *)
TICKER_DELAY_MS == 1000

(* What one iteration of the loop obtained: the quote, then the            *)
(* fundamentals, then the price history, then the analysis, each only if   *)
(* the iteration got that far, and the pause it made at its end.           *)
TickerOutcome(quote, fundamentals, history, analysis, threw) ==
    [threw |-> threw,
     quote |-> ~threw /\ quote,
     fundamentals |-> ~threw /\ quote /\ fundamentals,
     history |-> ~threw /\ quote /\ history,
     analysis |-> IF ~threw /\ quote /\ history THEN analysis ELSE NullAnalysis,
     delay |-> IF ~threw /\ quote /\ history THEN TICKER_DELAY_MS ELSE 0]

Step4TickerAborts(p, quote, fundamentals, history, analysis, threw) ==
    LET r == run[p]
        ticker == r.topTickers[r.idx].ticker
        scored == ~threw /\ quote /\ history
        inserted == scored /\ Qualifies(analysis)
        avoided == /\ scored /\ ~inserted /\ r.kind = "logging"
                   /\ Avoids(analysis)
        nrec == IF inserted THEN r.nrec + 1 ELSE r.nrec
        done == nrec >= MAX_RECOMMENDATIONS_PER_RUN \/ r.idx + 1 > Len(r.topTickers)
    IN
    /\ r.pc = "loop"
    /\ r.idx <= Len(r.topTickers)
    /\ recs' = IF inserted
               THEN insertRecommendation(recs, ticker, r.today, analysis, r.jobId)
               ELSE recs
    /\ run' = [run EXCEPT ![p].idx = r.idx + 1, ![p].nrec = nrec,
                          ![p].trail = IF done /\ ~threw THEN Append(@, 4) ELSE @,
                          ![p].seen = Append(@, ticker),
                          ![p].avoided = IF avoided THEN addAvoidItem(@, ticker) ELSE @,
                          ![p].pc = IF threw THEN "catch"
                                    ELSE IF done THEN "step5" ELSE "loop"]
    /\ last' = [Event(IF inserted THEN "insert"
                      ELSE IF threw THEN "tickerError"
                      ELSE IF ~quote \/ ~history THEN "noData"
                      ELSE IF avoided THEN "avoid"
                      ELSE "rejected", r, 4, ticker) EXCEPT
                    !.before = TickerOutcome(quote, fundamentals, history, analysis, threw)]
    /\ UNCHANGED <<now, store, jobs, ticks, ops>>

Step4TickerNoCap(p, quote, fundamentals, history, analysis, threw) ==
    LET r == run[p]
        ticker == r.topTickers[r.idx].ticker
        scored == ~threw /\ quote /\ history
        inserted == scored /\ Qualifies(analysis)
        avoided == /\ scored /\ ~inserted /\ r.kind = "logging"
                   /\ Avoids(analysis)
        nrec == IF inserted THEN r.nrec + 1 ELSE r.nrec
        done == r.idx + 1 > Len(r.topTickers)
    IN
    /\ r.pc = "loop"
    /\ r.idx <= Len(r.topTickers)
    /\ recs' = IF inserted
               THEN insertRecommendation(recs, ticker, r.today, analysis, r.jobId)
               ELSE recs
    /\ run' = [run EXCEPT ![p].idx = r.idx + 1, ![p].nrec = nrec,
                          ![p].errors = IF threw THEN Append(@, ticker) ELSE @,
                          ![p].ran = IF done THEN @ \cup {4} ELSE @,
                          ![p].trail = IF done THEN Append(@, 4) ELSE @,
                          ![p].seen = Append(@, ticker),
                          ![p].avoided = IF avoided THEN addAvoidItem(@, ticker) ELSE @,
                          ![p].pc = IF done THEN "step5" ELSE "loop"]
    /\ last' = [Event(IF inserted THEN "insert"
                      ELSE IF threw THEN "tickerError"
                      ELSE IF ~quote \/ ~history THEN "noData"
                      ELSE IF avoided THEN "avoid"
                      ELSE "rejected", r, 4, ticker) EXCEPT
                    !.before = TickerOutcome(quote, fundamentals, history, analysis, threw)]
    /\ UNCHANGED <<now, store, jobs, ticks, ops>>

(* Step 4, one iteration of the loop over topTickers.  quote, fundamentals *)
(* and history say whether the three fetches succeeded, analysis is        *)
(* analyzeStock's answer, threw says that something inside the iteration   *)
(* raised before a recommendation was saved.                               *)
Step4Ticker(p, quote, fundamentals, history, analysis, threw) ==
    LET r == run[p]
        ticker == r.topTickers[r.idx].ticker
        scored == ~threw /\ quote /\ history
        inserted == scored /\ Qualifies(analysis)
        avoided == /\ scored /\ ~inserted /\ r.kind = "logging"
                   /\ Avoids(analysis)
        nrec == IF inserted THEN r.nrec + 1 ELSE r.nrec
        done == nrec >= MAX_RECOMMENDATIONS_PER_RUN \/ r.idx + 1 > Len(r.topTickers)
    IN
    /\ r.pc = "loop"
    /\ r.idx <= Len(r.topTickers)
    /\ recs' = IF inserted
               THEN insertRecommendation(recs, ticker, r.today, analysis, r.jobId)
               ELSE recs
    /\ run' = [run EXCEPT ![p].idx = r.idx + 1, ![p].nrec = nrec,
                          ![p].errors = IF threw THEN Append(@, ticker) ELSE @,
                          ![p].ran = IF done THEN @ \cup {4} ELSE @,
                          ![p].trail = IF done THEN Append(@, 4) ELSE @,
                          ![p].seen = Append(@, ticker),
                          ![p].avoided = IF avoided THEN addAvoidItem(@, ticker) ELSE @,
                          ![p].pc = IF done THEN "step5" ELSE "loop"]
    /\ last' = [Event(IF inserted THEN "insert"
                      ELSE IF threw THEN "tickerError"
                      ELSE IF ~quote \/ ~history THEN "noData"
                      ELSE IF avoided THEN "avoid"
                      ELSE "rejected", r, 4, ticker) EXCEPT
                    !.before = TickerOutcome(quote, fundamentals, history, analysis, threw)]
    /\ UNCHANGED <<now, store, jobs, ticks, ops>>

(* Step 4 with an empty ranked list: the loop body never runs.             *)
Step4Empty(p) ==
    LET r == run[p] IN
    /\ r.pc = "loop"
    /\ r.idx > Len(r.topTickers)
    /\ run' = [run EXCEPT ![p].pc = "step5", ![p].ran = @ \cup {4},
                          ![p].trail = Append(@, 4)]
    /\ last' = Event("step4done", r, 4, "")
    /\ UNCHANGED <<now, store, recs, jobs, ticks, ops>>

Step5OnlyWhenFresh(p) ==
    LET r == run[p] IN
    /\ r.pc = "step5"
    /\ IF r.resumeFrom <= CACHEABLE_STEPS
       THEN /\ \E quotes \in [getActiveTickers(recs) -> Prices \cup {0}] :
                  recs' = updateAllPredictions(recs, now, PriceMapOf(quotes))
            /\ run' = [run EXCEPT ![p].pc = IF r.kind = "logging" THEN "step6"
                                            ELSE "clear",
                                  ![p].ran = @ \cup {5},
                          ![p].trail = Append(@, 5)]
       ELSE /\ recs' = recs
            /\ run' = [run EXCEPT ![p].pc = IF r.kind = "logging" THEN "step6"
                                            ELSE "clear"]
    /\ last' = Event("tracked", r, 5, "")
    /\ UNCHANGED <<now, store, jobs, ticks, ops>>

(* Step 5: the tracking pass, with the quotes fetchCurrentQuote answers.   *)
Step5Quoted(p, quotes) ==
    LET r == run[p] IN
    /\ r.pc = "step5"
    /\ recs' = updateAllPredictions(recs, now, PriceMapOf(quotes))
    /\ run' = [run EXCEPT ![p].pc = IF r.kind = "logging" THEN "step6" ELSE "clear",
                          ![p].ran = @ \cup {5},
                          ![p].trail = Append(@, 5)]
    /\ last' = Event("tracked", r, 5, "")
    /\ UNCHANGED <<now, store, jobs, ticks, ops>>

Step5(p) ==
    \E quotes \in [getActiveTickers(recs) -> Prices \cup {0}] : Step5Quoted(p, quotes)

Step6Propagates(p, ok) ==
    LET r == run[p] IN
    /\ r.pc = "step6"
    /\ run' = [run EXCEPT ![p].pc = IF ok THEN "clear" ELSE "catch",
                          ![p].outlook = IF ok THEN "generated" ELSE "failed",
                          ![p].trail = Append(@, 6)]
    /\ last' = Event(IF ok THEN "outlook" ELSE "outlookFailed", r, 6, "")
    /\ UNCHANGED <<now, store, recs, jobs, ticks, ops>>

(* Step 6 (runAnalysisWithLogging only): the market outlook, whose failure *)
(* is caught and logged.                                                   *)
Step6(p, ok) ==
    LET r == run[p] IN
    /\ r.pc = "step6"
    /\ run' = [run EXCEPT ![p].pc = "clear",
                          ![p].outlook = IF ok THEN "generated" ELSE "failed",
                          ![p].trail = Append(@, 6)]
    /\ last' = Event(IF ok THEN "outlook" ELSE "outlookFailed", r, 6, "")
    /\ UNCHANGED <<now, store, recs, jobs, ticks, ops>>

(* await clearStepCache(today, schedule)                                   *)
ClearCache(p) ==
    LET r == run[p]
        cleared == clearStepCache(store, r.today, r.schedule)
        r2 == [r EXCEPT !.pc = "complete",
                        !.deleted = @ \cup (DOMAIN store \ DOMAIN cleared)]
    IN
    /\ r.pc = "clear"
    /\ store' = cleared
    /\ run' = [run EXCEPT ![p] = r2]
    /\ last' = [Event("clear", r2, 0, "") EXCEPT !.before = store]
    /\ UNCHANGED <<now, recs, jobs, ticks, ops>>

(* completeJobExecution(jobId, ...); runDailyAnalysis then returns.        *)
Complete(p) ==
    LET r == run[p] IN
    /\ r.pc = "complete"
    /\ jobs' = completeJobExecution(jobs, r.jobId)
    /\ run' = [run EXCEPT ![p] = IF r.kind = "logging"
                                 THEN [r EXCEPT !.pc = "endJob"] ELSE IdleRun]
    /\ last' = [Event("complete", r, 0, "") EXCEPT
                    !.result = IF r.kind = "logging" THEN NoResult
                               ELSE JobResult(TRUE, r.crawlStats.totalNewArticles,
                                              Len(r.tickerResult.tickers), r.nrec,
                                              r.errors)]
    /\ UNCHANGED <<now, store, recs, ticks, ops>>

(* logEmitter.endJob(true), the last statement of the try block of         *)
(* runAnalysisWithLogging.                                                 *)
EndJob(p) ==
    LET r == run[p] IN
    /\ r.pc = "endJob"
    /\ run' = [run EXCEPT ![p] = IdleRun]
    /\ last' = [Event("endJob", r, 0, "") EXCEPT !.result = VoidResult]
    /\ UNCHANGED <<now, store, recs, jobs, ticks, ops>>

ThrowAfterPersist(p) ==
    LET r == run[p]
        k == CASE r.pc = "step1" -> 1 [] r.pc = "step2" -> 2 [] r.pc = "step3" -> 3
               [] OTHER -> 0
    IN
    /\ r.pc \in TryPcs
    /\ store' = IF k > 0 /\ r.resumeFrom <= k
                THEN setStepCache(store, now, r.today, r.schedule, k, <<>>)
                ELSE store
    /\ run' = [run EXCEPT ![p].pc = "catch"]
    /\ last' = Event("throw", r, 0, r.pc)
    /\ UNCHANGED <<now, recs, jobs, ticks, ops>>

(* The statement the run is at raises: control goes to the catch block.    *)
Throw(p) ==
    LET r == run[p] IN
    /\ r.pc \in TryPcs
    /\ run' = [run EXCEPT ![p].pc = "catch"]
    /\ last' = Event("throw", r, 0, r.pc)
    /\ UNCHANGED <<now, store, recs, jobs, ticks, ops>>

(* The counts of the steps the run had completed: the values of its       *)
(* locals crawlStats, tickerResult and recommendations.                    *)
CompletedCounts(r) ==
    [articlesProcessed |-> r.crawlStats.totalNewArticles,
     tickersFound |-> Len(r.tickerResult.tickers),
     recommendationsGenerated |-> r.nrec]

CatchWithoutRecord(p) ==
    LET r == run[p] IN
    /\ r.pc = "catch"
    /\ run' = [run EXCEPT ![p] = IdleRun]
    /\ last' = [Event("fail", r, 0, "") EXCEPT
                    !.before = CompletedCounts(r),
                    !.result = IF r.kind = "logging" THEN VoidResult
                               ELSE JobResult(FALSE, 0, 0, 0, <<"msg">> \o r.errors)]
    /\ UNCHANGED <<now, store, recs, jobs, ticks, ops>>

(* catch (err): failJobExecution(jobId, msg)                               *)
Catch(p) ==
    LET r == run[p] IN
    /\ r.pc = "catch"
    /\ jobs' = failJobExecution(jobs, r.jobId)
    /\ run' = [run EXCEPT ![p] = IdleRun]
    /\ last' = [Event("fail", r, 0, "") EXCEPT
                    !.before = CompletedCounts(r),
                    !.result = IF r.kind = "logging" THEN VoidResult
                               ELSE JobResult(FALSE, 0, 0, 0, <<"msg">> \o r.errors)]
    /\ UNCHANGED <<now, store, recs, ticks, ops>>

(* Time passes.                                                            *)
Tick(d) ==
    /\ ticks < MaxTicks
    /\ now' = now + d
    /\ ticks' = ticks + 1
    /\ last' = NoEvent
    /\ UNCHANGED <<store, recs, jobs, run, ops>>

Init ==
    /\ now = 0
    /\ store = <<>>
    /\ recs = <<>>
    /\ jobs = <<>>
    /\ run = [p \in Procs |-> IdleRun]
    /\ last = NoEvent
    /\ ticks = 0
    /\ ops = 0

RunStep(p) ==
    \/ \E k \in Kinds, s \in Schedules, f \in BOOLEAN : StartRun(p, k, s, f)
    \/ Step1(p)
    \/ Step2(p)
    \/ Step3(p)
    \/ Step4(p)
    \/ \E q \in BOOLEAN, f \in BOOLEAN, h \in BOOLEAN, a \in AnalysisResults,
          e \in BOOLEAN :
          Step4Ticker(p, q, f, h, a, e)
    \/ Step4Empty(p)
    \/ Step5(p)
    \/ \E ok \in BOOLEAN : Step6(p, ok)
    \/ ClearCache(p)
    \/ Complete(p)
    \/ EndJob(p)
    \/ Throw(p)
    \/ Catch(p)

(* Runs follow one another: one process executes them.                     *)
Next ==
    \/ RunStep("p1")
    \/ \E d \in TickDeltas : Tick(d)

Spec == Init /\ [][Next]_vars

-----------------------------------------------------------------------------
(* The step cache on its own: any sequence of writes, clears and ageing,   *)
(* over the files of three RunKeys, with files that are no cache entries   *)
(* (text that is no JSON, an object without a usable cachedAt) among them. *)

CacheKeys == {<<0, "morning">>, <<0, "evening">>, <<1, "morning">>}
CacheSteps == 1..CACHEABLE_STEPS
CachePayloads == CrawlResults \cup {NoCrawl}
CacheTickDeltas == {1, CACHE_TTL_MS}

CacheEvent(ev, key, step) ==
    Event(ev, [IdleRun EXCEPT !.today = key[1], !.schedule = key[2]], step, "")

CacheSet(key, step, data) ==
    /\ ops < MaxCacheOps
    /\ ops' = ops + 1
    /\ store' = setStepCache(store, now, key[1], key[2], step, data)
    /\ last' = CacheEvent("set", key, step)
    /\ UNCHANGED <<now, recs, jobs, run, ticks>>

(* The file is left holding text that is no JSON.                          *)
CacheGarble(key, step) ==
    /\ ops < MaxCacheOps
    /\ ops' = ops + 1
    /\ store' = [p \in DOMAIN store \cup {getCachePath(key[1], key[2], step)} |->
                    IF p = getCachePath(key[1], key[2], step) THEN Unparseable
                    ELSE store[p]]
    /\ last' = CacheEvent("garble", key, step)
    /\ UNCHANGED <<now, recs, jobs, run, ticks>>

(* The file is left holding an object whose cachedAt is missing or is no   *)
(* timestamp.                                                              *)
CacheBadStamp(key, step, data) ==
    /\ ops < MaxCacheOps
    /\ ops' = ops + 1
    /\ store' = [p \in DOMAIN store \cup {getCachePath(key[1], key[2], step)} |->
                    IF p = getCachePath(key[1], key[2], step)
                    THEN CacheFile(NotATimestamp, data)
                    ELSE store[p]]
    /\ last' = CacheEvent("badstamp", key, step)
    /\ UNCHANGED <<now, recs, jobs, run, ticks>>

CacheClear(key) ==
    /\ ops < MaxCacheOps
    /\ ops' = ops + 1
    /\ store' = clearStepCache(store, key[1], key[2])
    /\ last' = [CacheEvent("clear", key, 0) EXCEPT !.before = store]
    /\ UNCHANGED <<now, recs, jobs, run, ticks>>

CacheTick(d) ==
    /\ ticks < MaxTicks
    /\ ticks' = ticks + 1
    /\ now' = now + d
    /\ last' = NoEvent
    /\ UNCHANGED <<store, recs, jobs, run, ops>>

NextCache ==
    \/ \E key \in CacheKeys, step \in CacheSteps, data \in CachePayloads :
          CacheSet(key, step, data)
    \/ \E key \in CacheKeys, step \in CacheSteps : CacheGarble(key, step)
    \/ \E key \in CacheKeys, step \in CacheSteps : CacheBadStamp(key, step, NoCrawl)
    \/ \E key \in CacheKeys : CacheClear(key)
    \/ \E d \in CacheTickDeltas : CacheTick(d)

SpecCache == Init /\ [][NextCache]_vars

-----------------------------------------------------------------------------
(* Properties of the step cache, checked under SpecCache                   *)

(* What a file of the directory is, read off the file itself.              *)
Missing(date, schedule, step) == getCachePath(date, schedule, step) \notin DOMAIN store
Unreadable(date, schedule, step) ==
    /\ ~Missing(date, schedule, step)
    /\ ~store[getCachePath(date, schedule, step)].parses
WellFormed(date, schedule, step) ==
    /\ ~Missing(date, schedule, step)
    /\ store[getCachePath(date, schedule, step)].parses
    /\ store[getCachePath(date, schedule, step)].cachedAt.valid
AgeOf(date, schedule, step) ==
    now - store[getCachePath(date, schedule, step)].cachedAt.ms
Expired(date, schedule, step) ==
    /\ WellFormed(date, schedule, step)
    /\ AgeOf(date, schedule, step) > CACHE_TTL_MS
AbsentEntry(date, schedule, step) ==
    \/ Missing(date, schedule, step)
    \/ Unreadable(date, schedule, step)
    \/ Expired(date, schedule, step)

(* C3: getResumeStep(date, schedule, C) is the smallest step of 1..C whose *)
(* entry is absent (missing, unreadable or expired), and C+1 when there is *)
(* none; it lies in 1..C+1 and is the same whatever is stored for the      *)
(* steps after the first absent one.                                       *)
C3_ResumeIsFirstAbsent ==
    \A key \in CacheKeys, C \in 0..CACHEABLE_STEPS :
        LET r == getResumeStep(store, now, key[1], key[2], C)
            absent == {k \in 1..C : AbsentEntry(key[1], key[2], k)}
        IN /\ r \in 1..(C + 1)
           /\ absent = {} => r = C + 1
           /\ absent # {} => /\ r \in absent
                             /\ \A k \in absent : r <= k
           /\ \A k \in (r + 1)..C :
                /\ getResumeStep([p \in DOMAIN store \ {getCachePath(key[1], key[2], k)}
                                     |-> store[p]],
                                 now, key[1], key[2], C) = r
                /\ getResumeStep(setStepCache(store, now, key[1], key[2], k, NoCrawl),
                                 now, key[1], key[2], C) = r

(* C3 witness: steps 1 and 3 hold valid entries, step 2 holds an expired   *)
(* one, and the resume point is 2.                                         *)
C3_Witness ==
    \E key \in CacheKeys :
        /\ ~AbsentEntry(key[1], key[2], 1)
        /\ Expired(key[1], key[2], 2)
        /\ ~AbsentEntry(key[1], key[2], 3)
        /\ getResumeStep(store, now, key[1], key[2], CACHEABLE_STEPS) = 2

(* C5: for a key that holds a cache entry or nothing, getStepCache returns *)
(* the stored payload iff the entry exists and now - cachedAt <= 60 min,   *)
(* and null otherwise, for a missing and for an expired entry alike.       *)
C5_ValidIffWithinTTL ==
    \A key \in CacheKeys, step \in CacheSteps :
        (Missing(key[1], key[2], step) \/ WellFormed(key[1], key[2], step)) =>
            LET r == getStepCache(store, now, key[1], key[2], step)
                valid == /\ ~Missing(key[1], key[2], step)
                         /\ AgeOf(key[1], key[2], step) <= 60 * 60 * 1000
            IN /\ r.some <=> valid
               /\ r.some => r.v = store[getCachePath(key[1], key[2], step)].data
               /\ ~r.some => r = Null

(* C5 witness: one entry aged exactly 60 minutes is returned while another *)
(* aged one millisecond more is absent.                                    *)
C5_Witness ==
    \E key \in CacheKeys, s1 \in CacheSteps, s2 \in CacheSteps :
        /\ WellFormed(key[1], key[2], s1)
        /\ AgeOf(key[1], key[2], s1) = CACHE_TTL_MS
        /\ getStepCache(store, now, key[1], key[2], s1).some
        /\ WellFormed(key[1], key[2], s2)
        /\ AgeOf(key[1], key[2], s2) = CACHE_TTL_MS + 1
        /\ ~getStepCache(store, now, key[1], key[2], s2).some

(* C6: clearStepCache(date, schedule) removes every file of that RunKey    *)
(* and leaves every other file as it was.                                  *)
C6_ClearRemovesExactlyRunKey ==
    last.ev = "clear" =>
        /\ DOMAIN store \subseteq DOMAIN last.before
        /\ \A p \in DOMAIN last.before :
              IF p[1] = last.date /\ p[3] = last.schedule
              THEN p \notin DOMAIN store
              ELSE p \in DOMAIN store /\ store[p] = last.before[p]

(* C6 witness: a clear that removed a file while a file of the same date   *)
(* and the other schedule stayed.                                          *)
C6_Witness ==
    /\ last.ev = "clear"
    /\ \E p \in DOMAIN last.before : p[1] = last.date /\ p[3] = last.schedule
    /\ \E p \in DOMAIN store : p[1] = last.date /\ p[3] # last.schedule

(* C7: a stored file that is no well-formed cache entry (text that cannot  *)
(* be deserialized, or an object whose cachedAt is missing or no           *)
(* timestamp) reads as absent.                                             *)
C7_MalformedIsAbsent ==
    \A key \in CacheKeys, step \in CacheSteps :
        (~Missing(key[1], key[2], step) /\ ~WellFormed(key[1], key[2], step)) =>
            ~getStepCache(store, now, key[1], key[2], step).some

-----------------------------------------------------------------------------
(* Properties of the pipeline, checked under Spec                          *)

PathOf(r, k) == getCachePath(r.today, r.schedule, k)

(* The positions of a run after step k and before its own clearStepCache.  *)
AfterStep(k) ==
    CASE k = 1 -> {"step2", "step3", "step4", "loop", "step5", "step6", "clear"}
      [] k = 2 -> {"step3", "step4", "loop", "step5", "step6", "clear"}
      [] k = 3 -> {"step4", "loop", "step5", "step6", "clear"}

(* C1: a run for which failJobExecution is recorded has deleted no cache   *)
(* file of its RunKey.                                                     *)
C1_FailedRunDeletesNothing ==
    last.ev = "fail" => last.deleted = {}

(* The run started with all three entries of its RunKey within the TTL,    *)
(* after a run of the same RunKey had failed.                              *)
ResumedAfterFailure(r) ==
    /\ r.pc # "idle"
    /\ r.validAtStart = 1..CACHEABLE_STEPS
    /\ \E j \in 1..(r.jobId - 1) :
          /\ jobs[j].schedule = r.schedule
          /\ jobs[j].executionDate = r.today
          /\ jobs[j].status = "failed"

(* C2 as stated: such a run gets resume point 4, invokes none of steps 1   *)
(* to 3 and works on the three cached payloads.                            *)
C2_ResumeReusesPayloads ==
    \A p \in Procs :
        LET r == run[p] IN
        ResumedAfterFailure(r) =>
            /\ r.resumeFrom = CACHEABLE_STEPS + 1
            /\ r.executed = {}
            /\ r.pc \in AfterStep(1) => r.crawlStats = store[PathOf(r, 1)].data
            /\ r.pc \in AfterStep(2) => r.tickerResult = store[PathOf(r, 2)].data
            /\ r.pc \in AfterStep(3) => r.topTickers = store[PathOf(r, 3)].data

(* C2 as amended: such a run gets resume point 4 and invokes none of steps *)
(* 1 to 3; each step works on its cached payload when the entry is still   *)
(* within the TTL at the moment the step reads it, and on the empty        *)
(* default otherwise.                                                      *)
C2_ResumeSkipsCachedSteps ==
    \A p \in Procs :
        LET r == run[p]
            read(k) == last.ev = "replay" /\ last.job = r.jobId /\ last.step = k
            valid(k) == k \in ValidEntries(store, now, r.today, r.schedule)
        IN
        ResumedAfterFailure(r) =>
            /\ r.resumeFrom = CACHEABLE_STEPS + 1
            /\ r.executed = {}
            /\ read(1) => r.crawlStats =
                    IF valid(1) THEN store[PathOf(r, 1)].data ELSE NoCrawl
            /\ read(2) => r.tickerResult =
                    IF valid(2) THEN store[PathOf(r, 2)].data ELSE NoExtraction
            /\ read(3) => r.topTickers =
                    IF valid(3) THEN store[PathOf(r, 3)].data ELSE <<>>

(* C2 witness: a resumed run has reached step 4 with the cached ranked     *)
(* list and without executing a cacheable step.                            *)
C2_Witness ==
    \E p \in Procs :
        /\ ResumedAfterFailure(run[p])
        /\ run[p].pc = "loop"
        /\ run[p].executed = {}
        /\ Len(run[p].topTickers) > 0
        /\ run[p].topTickers = store[PathOf(run[p], 3)].data

(* C4 as stated: right after step N < C has been executed getResumeStep    *)
(* answers N + 1, and once the entry of a step N < C is older than the TTL *)
(* it answers N.                                                           *)
C4_ResumeTracksLastStep ==
    /\ (last.ev = "exec" /\ last.step < CACHEABLE_STEPS) =>
          getResumeStep(store, now, last.date, last.schedule, CACHEABLE_STEPS)
             = last.step + 1
    /\ \A path \in DOMAIN store :
          (path[5] < CACHEABLE_STEPS /\ Expired(path[1], path[3], path[5])) =>
             getResumeStep(store, now, path[1], path[3], CACHEABLE_STEPS) = path[5]

(* C4 as amended: right after step N < C has been executed, and while the  *)
(* entries of steps 1..N-1 are within the TTL, getResumeStep answers at    *)
(* least N + 1, and exactly N + 1 when step N + 1 has no valid entry; once *)
(* the entry of step N is older than the TTL it answers at most N, and     *)
(* exactly N while the entries of steps 1..N-1 are within the TTL.         *)
C4_ResumeBoundedByLastStep ==
    /\ (last.ev = "exec" /\ last.step < CACHEABLE_STEPS) =>
          LET valid == ValidEntries(store, now, last.date, last.schedule)
              resume == getResumeStep(store, now, last.date, last.schedule,
                                      CACHEABLE_STEPS)
          IN 1..(last.step - 1) \subseteq valid =>
                /\ resume >= last.step + 1
                /\ (last.step + 1) \notin valid => resume = last.step + 1
    /\ \A path \in DOMAIN store :
          (path[5] < CACHEABLE_STEPS /\ Expired(path[1], path[3], path[5])) =>
             LET valid == ValidEntries(store, now, path[1], path[3])
                 resume == getResumeStep(store, now, path[1], path[3],
                                         CACHEABLE_STEPS)
             IN /\ resume <= path[5]
                /\ 1..(path[5] - 1) \subseteq valid => resume = path[5]

(* C4 witness: step 2 has just been executed by a run that replayed step 1 *)
(* and the resume point of its RunKey is 3.                                *)
C4_Witness ==
    /\ last.ev = "exec"
    /\ last.step = 2
    /\ \E p \in Procs : run[p].jobId = last.job /\ run[p].resumeFrom = 2
    /\ getResumeStep(store, now, last.date, last.schedule, CACHEABLE_STEPS) = 3

(* The jobs recorded before job id for the same RunKey.                    *)
EarlierJobs(id) ==
    {j \in 1..(id - 1) : /\ jobs[j].schedule = jobs[id].schedule
                         /\ jobs[j].executionDate = jobs[id].executionDate}

(* The latest job recorded before job id for its RunKey was completed.     *)
FollowsCompletedRun(id) ==
    /\ EarlierJobs(id) # {}
    /\ \E j \in EarlierJobs(id) :
          /\ \A k \in EarlierJobs(id) : k <= j
          /\ jobs[j].status = "completed"

(* C8: when completeJobExecution is recorded for a run no cache file of    *)
(* its RunKey is stored and getResumeStep answers 1; the next run of that  *)
(* RunKey starts at step 1 and executes each of steps 1 to 3.              *)
C8_CompletedRunLeavesNoCache ==
    /\ last.ev = "complete" =>
          /\ \A k \in 1..CACHEABLE_STEPS : Missing(last.date, last.schedule, k)
          /\ getResumeStep(store, now, last.date, last.schedule,
                           CACHEABLE_STEPS) = 1
    /\ \A p \in Procs :
          LET r == run[p] IN
          (r.pc # "idle" /\ FollowsCompletedRun(r.jobId)) =>
             /\ r.resumeFrom = 1
             /\ \A k \in 1..CACHEABLE_STEPS :
                   r.pc \in AfterStep(k) => k \in r.executed

(* C8 witness: a run that follows a completed run of its RunKey, which had *)
(* deleted three cache files, has executed steps 1 to 3 afresh.            *)
C8_Witness ==
    \E p \in Procs :
        /\ run[p].pc = "step4"
        /\ FollowsCompletedRun(run[p].jobId)
        /\ run[p].executed = 1..CACHEABLE_STEPS
        /\ run[p].resumeFrom = 1

(* C9: no two Recommendations for the same ticker and day were appended by *)
(* two different non-forced runs of the same RunKey.                       *)
C9_NoDuplicateAcrossRuns ==
    \A i, j \in 1..Len(recs) :
        ~ /\ i < j
          /\ recs[i].ticker = recs[j].ticker
          /\ recs[i].recommendationDate = recs[j].recommendationDate
          /\ recs[i].byJob # recs[j].byJob
          /\ ~jobs[recs[i].byJob].force
          /\ ~jobs[recs[j].byJob].force
          /\ jobs[recs[i].byJob].schedule = jobs[recs[j].byJob].schedule
          /\ jobs[recs[i].byJob].executionDate = jobs[recs[j].byJob].executionDate

(* C10: right after insertRecommendation the inserted Recommendation is    *)
(* the only open one of its ticker.                                        *)
C10_InsertedTickerWasNotActive ==
    last.ev = "insert" =>
        Cardinality({i \in getActiveRecommendations(recs) :
                        recs[i].ticker = last.ticker}) = 1

-----------------------------------------------------------------------------
(* The ranking of step 3 on its own: RankTickers applied to extracted      *)
(* lists and open-position sets                                            *)

MaxRankLen == 3

(* BBCA .8/.5, TLKM .9/.3 and ADRO .95/.9 as relevance/sentiment.          *)
RankExample ==
    <<ExtractedTicker("BBCA", 50, 80), ExtractedTicker("TLKM", 30, 90),
      ExtractedTicker("ADRO", 90, 95)>>

RankCandidates ==
    {ExtractedTicker("BBCA", 50, 80), ExtractedTicker("TLKM", 30, 90),
     ExtractedTicker("ADRO", 90, 95), ExtractedTicker("GOTO", 40, 80),
     ExtractedTicker("ASII", 20, 99), ExtractedTicker("adro", 60, 85)}

(* Twelve positive tickers, more than the ranked list keeps.               *)
RankLongList ==
    [i \in 1..12 |->
        ExtractedTicker(<<"T01", "T02", "T03", "T04", "T05", "T06", "T07", "T08",
                          "T09", "T10", "T11", "T12">>[i],
                        30 + i, 50 + (i % 4))]

RankInputs ==
    UNION {[1..n -> RankCandidates] : n \in 0..MaxRankLen} \cup {RankLongList}

RankActiveSets == SUBSET {"ADRO", "BBCA", "T03"}

RankTickersCall(tickers, activeTickers) ==
    /\ last.ev # "rank"
    /\ last' = [ev |-> "rank", tickers |-> tickers, activeTickers |-> activeTickers,
                topTickers |-> RankTickers(tickers, activeTickers)]
    /\ UNCHANGED <<now, store, recs, jobs, run, ticks, ops>>

NextRank ==
    \E tickers \in RankInputs, activeTickers \in RankActiveSets :
        RankTickersCall(tickers, activeTickers)

SpecRank == Init /\ [][NextRank]_vars

(* How often the value x occurs in the sequence s.                         *)
Occurrences(s, x) == Cardinality({i \in 1..Len(s) : s[i] = x})

(* x may stand before y in the ranked list: higher relevance, or equal     *)
(* relevance and a sentiment at least as high.                             *)
RanksBefore(x, y) ==
    \/ x.relevance > y.relevance
    \/ x.relevance = y.relevance /\ x.sentiment >= y.sentiment

-----------------------------------------------------------------------------
(* The tracker on its own: recommendations are inserted, tracking passes   *)
(* run with the quotes of the moment, calendar days go by                  *)

MaxRecs == 2
MaxDays == 3

(* analyzeStock's plans: the usual one, and one whose stop lies above its  *)
(* target, so that one price can meet both exit conditions.                *)
TrackPlans ==
    {Analysis("BUY", 70), [Analysis("BUY", 70) EXCEPT !.stopLoss = 10300]}

(* Quotes of a tracking pass: below the stop, at most the entry, between   *)
(* entry and target, at least the target; 0 stands for no quote.           *)
TrackPrices == {0, 9100, 9400, 9800, 10250}

TrackEvent(ev, before, priceMap) ==
    [ev |-> ev, before |-> before, priceMap |-> priceMap, result |-> NoTrackingResult,
     fetched |-> <<>>]

NoQuotes == [t \in Tickers |-> 0]

TrackTickers == {"BBCA", "TLKM"}

(* insertRecommendation, as step 4 calls it, while the calendar of the     *)
(* model still reaches the day after the holding period.                   *)
TrackInsert(ticker, plan) ==
    /\ Len(recs) < MaxRecs
    /\ ISODate(now) + plan.maxHoldDays < MaxDays
    /\ recs' = insertRecommendation(recs, ticker, ISODate(now), plan, 0)
    /\ last' = TrackEvent("inserted", recs, NoQuotes)
    /\ UNCHANGED <<now, store, jobs, run, ticks, ops>>

(* updateAllPredictions(): priceMap has a quote for some of the tickers    *)
(* with an open recommendation.  ops is the parity of the number of        *)
(* passes, so that every pass is a step.                                   *)
TrackPass(priceMap) ==
    /\ recs' = updateAllPredictions(recs, now, priceMap)
    /\ last' = [TrackEvent("pass", recs, priceMap) EXCEPT
                    !.result = TrackingResult(recs, now, priceMap),
                    !.fetched = TickersToFetch(recs)]
    /\ ops' = (ops + 1) % 2
    /\ UNCHANGED <<now, store, jobs, run, ticks>>

(* The calendar day changes.                                               *)
TrackDay ==
    /\ ISODate(now) < MaxDays
    /\ now' = now + MS_PER_DAY
    /\ last' = TrackEvent("day", recs, NoQuotes)
    /\ UNCHANGED <<store, recs, jobs, run, ticks, ops>>

NextTrack ==
    \/ \E ticker \in TrackTickers, plan \in TrackPlans : TrackInsert(ticker, plan)
    \/ \E quotes \in [getActiveTickers(recs) -> TrackPrices] :
          TrackPass(PriceMapOf(quotes))
    \/ TrackDay

SpecTrack == Init /\ [][NextTrack]_vars

(* Tracking passes keep being run and the calendar keeps advancing, up to  *)
(* MaxDays.                                                                *)
SpecTrackFair ==
    /\ SpecTrack
    /\ WF_vars(\E quotes \in [getActiveTickers(recs) -> TrackPrices] :
                  TrackPass(PriceMapOf(quotes)))
    /\ WF_vars(TrackDay)

TerminalStatuses == {"target_hit", "sl_hit", "expired"}

(* pending < entry_hit < {target_hit, sl_hit, expired}                     *)
StatusRank(status) ==
    CASE status = "pending" -> 0
      [] status = "entry_hit" -> 1
      [] OTHER -> 2

(* C12: no step moves the status of a Recommendation backwards in the      *)
(* order pending < entry_hit < terminal, and no step changes any field of  *)
(* a Recommendation whose status is target_hit, sl_hit or expired.         *)
C12_StatusOnlyAdvances ==
    [][\A i \in 1..Len(recs) :
          /\ StatusRank(recs'[i].status) >= StatusRank(recs[i].status)
          /\ recs[i].status \in TerminalStatuses => recs'[i] = recs[i]]_vars

(* C12 witness: a pass had a quote for the ticker of a Recommendation that *)
(* was already closed, and left that Recommendation as it was.             *)
C12_Witness ==
    /\ last.ev = "pass"
    /\ \E i \in 1..Len(last.before) :
          /\ last.before[i].status \in TerminalStatuses
          /\ last.before[i].hasPnl
          /\ last.priceMap[last.before[i].ticker] \notin {0, last.before[i].exitPrice}
          /\ recs[i] = last.before[i]

(* The Recommendations a pass evaluated: open before it, with a quote.     *)
Evaluated ==
    {i \in 1..Len(last.before) :
        /\ last.before[i].status \in OpenStatuses
        /\ last.priceMap[last.before[i].ticker] # 0}

QuoteOf(i) == last.priceMap[last.before[i].ticker]

DaysActiveOf(i) == ISODate(now) - last.before[i].recommendationDate

EntryCondition(i) == QuoteOf(i) <= last.before[i].entryPrice
TargetCondition(i) == QuoteOf(i) >= last.before[i].targetPrice
StopCondition(i) == QuoteOf(i) <= last.before[i].stopLoss
ExpiryCondition(i) == DaysActiveOf(i) > last.before[i].maxHoldDays

(* C13: in a tracking pass a status changes only by a transition of the    *)
(* table whose condition holds for the quote and daysActive of the pass:   *)
(* pending to entry_hit (price <= entry) or expired (days > maxHoldDays),  *)
(* entry_hit to target_hit (price >= target), sl_hit (price <= stop) or    *)
(* expired (days > maxHoldDays); an evaluated Recommendation for which no  *)
(* condition holds, and one without a quote, is left as it was.            *)
C13_OnlyTableTransitions ==
    last.ev = "pass" =>
        \A i \in 1..Len(last.before) :
            LET b == last.before[i]
                a == recs[i]
            IN /\ i \notin Evaluated => a = b
               /\ (i \in Evaluated /\ b.status = "pending") =>
                     /\ a.status \in {"pending", "entry_hit", "expired"}
                     /\ a.status = "entry_hit" => EntryCondition(i)
                     /\ a.status = "expired" => ExpiryCondition(i)
                     /\ a.status = "pending" <=>
                           ~EntryCondition(i) /\ ~ExpiryCondition(i)
                     /\ a.status = "pending" => a = b
               /\ (i \in Evaluated /\ b.status = "entry_hit") =>
                     /\ a.status \in {"entry_hit", "target_hit", "sl_hit", "expired"}
                     /\ a.status = "target_hit" => TargetCondition(i)
                     /\ a.status = "sl_hit" => StopCondition(i)
                     /\ a.status = "expired" => ExpiryCondition(i)
                     /\ a.status = "entry_hit" <=>
                           ~TargetCondition(i) /\ ~StopCondition(i) /\ ~ExpiryCondition(i)
                     /\ a.status = "entry_hit" => a = b

(* C13 witness: a pending Recommendation with entry 9500 met the quote     *)
(* 9400 and became entry_hit.                                              *)
C13_Witness ==
    /\ last.ev = "pass"
    /\ \E i \in Evaluated :
          /\ last.before[i].status = "pending"
          /\ last.before[i].entryPrice = 9500
          /\ QuoteOf(i) = 9400
          /\ recs[i].status = "entry_hit"

(* C14: an evaluated entry_hit Recommendation becomes target_hit if the    *)
(* target condition holds, otherwise sl_hit if the stop condition holds,   *)
(* otherwise expired if the expiry condition holds, otherwise it stays;    *)
(* two Recommendations that agree on status, plan, date and ticker get the *)
(* same result in one pass.                                                *)
C14_TargetBeforeStopBeforeExpiry ==
    last.ev = "pass" =>
        /\ \A i \in Evaluated :
              last.before[i].status = "entry_hit" =>
                 recs[i].status =
                    IF TargetCondition(i) THEN "target_hit"
                    ELSE IF StopCondition(i) THEN "sl_hit"
                    ELSE IF ExpiryCondition(i) THEN "expired"
                    ELSE "entry_hit"
        /\ \A i, j \in Evaluated :
              last.before[i] = last.before[j] => recs[i] = recs[j]

(* C14 witness: target, stop and expiry conditions all held for an         *)
(* entry_hit Recommendation, which became target_hit.                      *)
C14_Witness ==
    /\ last.ev = "pass"
    /\ \E i \in Evaluated :
          /\ last.before[i].status = "entry_hit"
          /\ TargetCondition(i)
          /\ StopCondition(i)
          /\ ExpiryCondition(i)
          /\ recs[i].status = "target_hit"

(* C15: a status update persisted by a pass carries a P&L exactly when the *)
(* status before was entry_hit, and then the P&L, in hundredths of a       *)
(* percent rounded down, is (quote - entryPrice) / entryPrice * 100.       *)
C15_PnlIffEntered ==
    last.ev = "pass" =>
        \A i \in Evaluated :
            LET b == last.before[i]
                a == recs[i]
            IN a.status # b.status =>
                  /\ a.hasPnl <=> b.status = "entry_hit"
                  /\ a.exitPrice = QuoteOf(i)
                  /\ a.hasPnl =>
                        /\ a.pnlBp * b.entryPrice <= (QuoteOf(i) - b.entryPrice) * 10000
                        /\ (a.pnlBp + 1) * b.entryPrice > (QuoteOf(i) - b.entryPrice) * 10000
                  /\ ~a.hasPnl => a.pnlBp = 0

(* C15 witness: in one pass a pending Recommendation expired without a P&L *)
(* and an entry_hit Recommendation was closed with one.                    *)
C15_Witness ==
    /\ last.ev = "pass"
    /\ \E i, j \in Evaluated :
          /\ last.before[i].status = "pending"
          /\ recs[i].status = "expired"
          /\ ~recs[i].hasPnl
          /\ last.before[j].status = "entry_hit"
          /\ recs[j].status \in TerminalStatuses
          /\ recs[j].hasPnl
          /\ recs[j].pnlBp # 0

(* C16: with passes and days going on, every Recommendation that is       *)
(* pending or entry_hit is eventually target_hit, sl_hit or expired.       *)
C16_EveryOpenIsClosed ==
    \A i \in 1..MaxRecs :
        (Len(recs) >= i /\ recs[i].status \in OpenStatuses)
            ~> (Len(recs) >= i /\ recs[i].status \in TerminalStatuses)

-----------------------------------------------------------------------------
(* Steps 4 onwards of one run whose ranked list has as many tickers as the *)
(* extractor found: none, or more than MAX_RECOMMENDATIONS_PER_RUN         *)

BatchExtractions ==
    { [tickers |-> <<>>, articlesAnalyzed |-> 2],
      [tickers |-> <<ExtractedTicker("BBCA", 50, 80), ExtractedTicker("TLKM", 30, 90),
                     ExtractedTicker("ADRO", 90, 95), ExtractedTicker("GOTO", 40, 70),
                     ExtractedTicker("ASII", 60, 60), ExtractedTicker("UNVR", 25, 50)>>,
       articlesAnalyzed |-> 6] }

(* The run after steps 1 to 3 were executed on an empty cache.             *)
BatchRun(kind, extraction) ==
    [IdleRun EXCEPT !.pc = "step4", !.kind = kind, !.jobId = 1, !.resumeFrom = 1,
                    !.crawlStats = [totalNewArticles |-> 2, successfulPortals |-> 1],
                    !.tickerResult = extraction,
                    !.topTickers = RankTickers(extraction.tickers, {}),
                    !.executed = 1..CACHEABLE_STEPS,
                    !.touched = 1..CACHEABLE_STEPS,
                    !.trail = <<1, 2, 3>>]

BatchStore(r) ==
    setStepCache(
        setStepCache(
            setStepCache(<<>>, 0, r.today, r.schedule, 1, r.crawlStats),
            0, r.today, r.schedule, 2, r.tickerResult),
        0, r.today, r.schedule, 3, r.topTickers)

InitBatch ==
    \E kind \in Kinds, extraction \in BatchExtractions :
        LET r == BatchRun(kind, extraction) IN
        /\ now = 0
        /\ store = BatchStore(r)
        /\ recs = <<>>
        /\ jobs = startJobExecution(<<>>, r.schedule, r.today, kind, FALSE)
        /\ run = [p \in Procs |-> IF p = "p1" THEN r ELSE IdleRun]
        /\ last = Event("exec", r, 3, "")
        /\ ticks = 0
        /\ ops = 0

NextBatch ==
    \/ Step4("p1")
    \/ \E q \in BOOLEAN, f \in BOOLEAN, h \in BOOLEAN, a \in AnalysisResults,
          e \in BOOLEAN :
          Step4Ticker("p1", q, f, h, a, e)
    \/ Step4Empty("p1")
    \/ Step5("p1")
    \/ \E ok \in BOOLEAN : Step6("p1", ok)
    \/ ClearCache("p1")
    \/ Complete("p1")
    \/ EndJob("p1")
    \/ Throw("p1")
    \/ Catch("p1")

SpecBatch == InitBatch /\ [][NextBatch]_vars

(* C17: an iteration of step 4 that threw, found no quote or history, or   *)
(* rejected its ticker leaves the run in the loop, or at step 5 when no    *)
(* ticker is left, never in the catch block; the loop ends only when the   *)
(* list is exhausted or MAX_RECOMMENDATIONS_PER_RUN were inserted; and the *)
(* JobResult of a completed runDailyAnalysis has success = true and the    *)
(* errors of exactly the tickers that threw.                               *)
C17_TickerFailureIsIsolated ==
    LET r == run["p1"] IN
    /\ (last.ev \in {"tickerError", "noData", "rejected", "avoid"} /\ last.job = r.jobId) =>
          /\ r.pc = IF r.idx <= Len(r.topTickers) THEN "loop" ELSE "step5"
          /\ r.topTickers[r.idx - 1].ticker = last.ticker
          /\ last.ev = "tickerError" =>
                Len(r.errors) > 0 /\ r.errors[Len(r.errors)] = last.ticker
    /\ r.pc \in {"step5", "step6", "clear", "complete"} =>
          \/ r.idx = Len(r.topTickers) + 1
          \/ r.nrec = MAX_RECOMMENDATIONS_PER_RUN
    /\ r.pc \in {"loop", "step5", "step6", "clear", "complete"} =>
          /\ Len(r.errors) + r.nrec <= r.idx - 1
          /\ \A i, j \in 1..Len(r.errors) : i < j => r.errors[i] # r.errors[j]
    /\ (last.ev = "complete" /\ last.result.value = "result") =>
          /\ last.result.success
          /\ last.result.recommendationsGenerated + Len(last.result.errors)
                <= last.result.tickersFound
          /\ \A i \in 1..Len(last.result.errors) :
                \A k \in 1..Len(recs) : recs[k].ticker # last.result.errors[i]

(* C17 witness: runDailyAnalysis returned success = true after two tickers *)
(* threw and a later ticker of the list was recommended.                   *)
C17_Witness ==
    /\ last.ev = "complete"
    /\ last.result.value = "result"
    /\ last.result.success
    /\ Len(last.result.errors) = 2
    /\ \E k \in 1..Len(recs) : recs[k].ticker \in {"ASII", "UNVR"}

C19_FailedRunReportsCounts ==
    (last.ev = "fail" /\ last.result.value = "result") =>
        /\ last.result.articlesProcessed = last.before.articlesProcessed
        /\ last.result.tickersFound = last.before.tickersFound
        /\ last.result.recommendationsGenerated = last.before.recommendationsGenerated

(* C20, as stated: every run that did not fail during steps 1-3 executes   *)
(* steps 4 and 5 in full, so a run whose exception was raised after step 3 *)
(* has both behind it, and no cache entry of a step above 3 is read or     *)
(* written.                                                                *)
C20_EveryRunPastStep3RunsLaterSteps ==
    /\ \A p \in Procs :
          (/\ run[p].pc = "catch"
           /\ last.ev = "throw"
           /\ last.ticker \notin {"step1", "step2", "step3"}) =>
              {4, 5} \subseteq run[p].ran
    /\ \A p \in Procs : run[p].touched \subseteq 1..3
    /\ \A path \in DOMAIN store : path[5] \in 1..3

(* C20: a run that is past step 5 has iterated step 4 to the end of the    *)
(* ranked list or to MAX_RECOMMENDATIONS_PER_RUN and has made the tracking *)
(* pass of step 5, whatever its resume point; a run at step 5 has finished *)
(* step 4; no cache file of a step above 3 is ever stored and no run reads *)
(* or writes the entry of a step above 3.                                  *)
C20_LaterStepsAlwaysRun ==
    /\ \A p \in Procs :
          LET r == run[p] IN
          /\ r.pc = "step5" => 4 \in r.ran
          /\ r.pc \in {"step6", "clear", "complete", "endJob"} =>
                /\ {4, 5} \subseteq r.ran
                /\ r.idx = Len(r.topTickers) + 1 \/ r.nrec = MAX_RECOMMENDATIONS_PER_RUN
          /\ r.pc # "idle" => r.resumeFrom \in 1..4
          /\ r.touched \subseteq 1..3
    /\ \A path \in DOMAIN store : path[5] \in 1..3

(* C20 witness: a run resumed at step 4 has gone through its one-ticker    *)
(* list and made the tracking pass.                                        *)
C20_Witness ==
    \E p \in Procs :
        /\ run[p].resumeFrom = 4
        /\ run[p].pc = "clear"
        /\ run[p].ran = {4, 5}
        /\ run[p].idx = 2
        /\ run[p].touched = 1..3

(* C21: when the market outlook of step 6 fails, the run goes on to        *)
(* clearStepCache with its job still running; it then has the cache of its *)
(* RunKey cleared and its job completed, and it reaches the catch block    *)
(* only because a later statement raised, never because of the outlook.    *)
C21_OutlookFailureIsSwallowed ==
    \A p \in Procs :
        LET r == run[p] IN
        /\ (last.ev = "outlookFailed" /\ last.job = r.jobId) =>
              r.pc = "clear" /\ jobs[r.jobId].status = "running"
        /\ r.outlook = "failed" =>
              /\ r.kind = "logging"
              /\ r.pc \in {"clear", "complete", "endJob", "catch"}
              /\ r.pc \in {"clear", "complete"} => jobs[r.jobId].status = "running"
              /\ r.pc \in {"complete", "endJob"} =>
                    \A k \in 1..CACHEABLE_STEPS : PathOf(r, k) \notin DOMAIN store
              /\ r.pc = "endJob" => jobs[r.jobId].status = "completed"
              /\ (r.pc = "catch" /\ last.ev = "throw") =>
                    last.ticker \in {"clear", "complete", "endJob"}

(* C21 witness: a run whose outlook failed is at logEmitter.endJob(true)   *)
(* with its job completed, after it executed steps 1 to 3.                 *)
C21_Witness ==
    \E p \in Procs :
        /\ run[p].outlook = "failed"
        /\ run[p].pc = "endJob"
        /\ run[p].executed = 1..CACHEABLE_STEPS
        /\ jobs[run[p].jobId].status = "completed"

(* The recommendations a job inserted.                                     *)
InsertedBy(id) == {k \in 1..Len(recs) : recs[k].byJob = id}

(* C22: a run has inserted as many recommendations as it counts, never     *)
(* more than MAX_RECOMMENDATIONS_PER_RUN; a run that is still in the loop  *)
(* of step 4 has inserted fewer, so that no iteration starts after the     *)
(* fifth insertion; and the tickers the loop left unprocessed have no      *)
(* recommendation of this run.                                             *)
C22_AtMostFivePerRun ==
    \A p \in Procs :
        LET r == run[p] IN
        r.pc # "idle" =>
            /\ r.pc # "step4" => Cardinality(InsertedBy(r.jobId)) = r.nrec
            /\ Cardinality(InsertedBy(r.jobId)) <= MAX_RECOMMENDATIONS_PER_RUN
            /\ r.pc = "loop" => r.nrec < MAX_RECOMMENDATIONS_PER_RUN
            /\ r.pc \in {"loop", "step5", "step6", "clear", "complete", "endJob"} =>
                  \A i \in r.idx..Len(r.topTickers) :
                      \A k \in InsertedBy(r.jobId) :
                          recs[k].ticker # r.topTickers[i].ticker

(* C22 witness: the fifth recommendation was inserted for the fifth ticker *)
(* of a list of six and the run left the loop with the sixth unprocessed.  *)
C22_Witness ==
    \E p \in Procs :
        /\ run[p].pc = "step5"
        /\ run[p].nrec = MAX_RECOMMENDATIONS_PER_RUN
        /\ run[p].idx = MAX_RECOMMENDATIONS_PER_RUN + 1
        /\ Len(run[p].topTickers) = MAX_RECOMMENDATIONS_PER_RUN + 1
        /\ last.ev = "insert"

(* The events of the iterations of the loop of step 4.                     *)
IterationEvents == {"insert", "tickerError", "noData", "avoid", "rejected"}

(* The run whose iteration the last event reports saved a recommendation   *)
(* for the ticker of that iteration.                                       *)
SavedForLastTicker ==
    \E k \in InsertedBy(last.job) : recs[k].ticker = last.ticker

(* C23: after an iteration of step 4 the run has a recommendation for the  *)
(* ticker if and only if the quote and the price history were fetched and  *)
(* the analysis is non-null with overallScore >= 65 and action BUY,        *)
(* whether or not the fundamentals were fetched.                           *)
C23_InsertedIffQualifyingBuy ==
    last.ev \in IterationEvents =>
        LET o == last.before IN
        /\ SavedForLastTicker <=>
              /\ o.quote
              /\ o.history
              /\ ~o.analysis.isNull
              /\ o.analysis.overallScore >= 65
              /\ o.analysis.action = "BUY"
        /\ SavedForLastTicker <=> last.ev = "insert"
        /\ (o.analysis.isNull \/ o.analysis.action \in {"HOLD", "AVOID"}
              \/ o.analysis.overallScore < 65) => ~SavedForLastTicker

(* C23 witness: a recommendation was inserted for a ticker whose           *)
(* fundamentals could not be fetched.                                      *)
C23_Witness ==
    /\ last.ev = "insert"
    /\ last.before.quote /\ last.before.history
    /\ ~last.before.fundamentals
    /\ last.before.analysis.overallScore >= 65
    /\ SavedForLastTicker

(* C24: whenever a run is about to process a ticker after another one, the *)
(* iteration before it ended with the inter-ticker delay, whatever its     *)
(* outcome was.                                                            *)
C24_DelayBetweenTickers ==
    \A p \in Procs :
        LET r == run[p] IN
        (/\ r.pc = "loop"
         /\ r.idx > 1
         /\ r.idx <= Len(r.topTickers)
         /\ last.ev \in IterationEvents
         /\ last.job = r.jobId) =>
            last.before.delay = TICKER_DELAY_MS

(* C25: a run that replays a step whose entry is no longer there goes on   *)
(* to the next step with the empty default of that step, its job still     *)
(* running: no articles and portals for step 1, no tickers for step 2, an  *)
(* empty ranked list for step 3, after which step 4 saves nothing.         *)
C25_VanishedEntryFallsBackToDefault ==
    \A p \in Procs :
        LET r == run[p] IN
        /\ (last.ev = "replay" /\ last.job = r.jobId
              /\ ~getStepCache(store, now, r.today, r.schedule, last.step).some) =>
              /\ last.step \in r.defaulted
              /\ r.pc = CASE last.step = 1 -> "step2"
                          [] last.step = 2 -> "step3"
                          [] OTHER -> "step4"
              /\ jobs[r.jobId].status = "running"
        /\ \A k \in r.defaulted : k < r.resumeFrom /\ k \in r.validAtStart
        /\ (1 \in r.defaulted /\ r.pc # "idle") =>
              r.crawlStats = [totalNewArticles |-> 0, successfulPortals |-> 0]
        /\ (2 \in r.defaulted /\ r.pc # "idle") =>
              /\ r.tickerResult.tickers = <<>>
              /\ 3 \in r.executed => r.topTickers = <<>>
        /\ (3 \in r.defaulted /\ r.pc # "idle") =>
              /\ r.topTickers = <<>>
              /\ r.nrec = 0
              /\ InsertedBy(r.jobId) = {}

(* C25 witness: a run that found steps 1 to 3 cached when it started and   *)
(* none of them when it read them is about to complete with no article,    *)
(* no ticker and no recommendation.                                        *)
C25_Witness ==
    \E p \in Procs :
        /\ run[p].defaulted = 1..CACHEABLE_STEPS
        /\ run[p].pc = "complete"
        /\ run[p].crawlStats.totalNewArticles = 0
        /\ run[p].topTickers = <<>>

(* The position of a run that is at step k.                                *)
PcOfStep(k) == CASE k = 1 -> "step1" [] k = 2 -> "step2" [] k = 3 -> "step3"
                 [] k = 4 -> "step4" [] OTHER -> "none"

(* The payload a run holds for step k.                                     *)
PayloadOf(r, k) == CASE k = 1 -> r.crawlStats [] k = 2 -> r.tickerResult
                     [] OTHER -> r.topTickers

(* The file at path was created or rewritten by the step taken.            *)
EntryWritten(path) ==
    /\ path \in DOMAIN store'
    /\ path \notin DOMAIN store \/ store'[path] # store[path]

(* The step taken is a run completing the work of a cacheable step k: the  *)
(* file written is the entry of the run's RunKey and step k, stamped with  *)
(* the present time and holding the step's result, and the run is at step  *)
(* k + 1 when the write is done.                                           *)
WrittenByCompletedStep(path) ==
    \E p \in Procs, k \in 1..CACHEABLE_STEPS :
        /\ run[p].pc = PcOfStep(k)
        /\ run[p].resumeFrom <= k
        /\ run'[p].pc = PcOfStep(k + 1)
        /\ path = PathOf(run[p], k)
        /\ store'[path] = CacheFile(toISOString(now'), PayloadOf(run'[p], k))
        /\ last'.ev = "exec" /\ last'.step = k

(* C26: every entry is written by a run in the step that completes the     *)
(* work of a cacheable step k, before step k + 1, with the time of the     *)
(* write; a run whose step k raised has written no entry for k; so every   *)
(* entry carries the time at which its step completed, and an entry that   *)
(* is valid was written by a step completed within the TTL.                *)
C26_EntryWrittenOnCompletion ==
    /\ [][\A path \in DOMAIN store' :
              EntryWritten(path) => WrittenByCompletedStep(path)]_vars
    /\ [](\A p \in Procs : \A k \in 1..CACHEABLE_STEPS :
              (run[p].pc = "catch" /\ last.ev = "throw" /\ last.job = run[p].jobId
                 /\ last.ticker = PcOfStep(k)) => k \notin run[p].executed)
    /\ [](\A p \in Procs : \A k \in run[p].executed :
              /\ PathOf(run[p], k) \in DOMAIN store \/ run[p].pc \in {"complete", "endJob", "catch"}
              /\ run[p].pc \notin {PcOfStep(j) : j \in 1..k})
    /\ [](\A path \in DOMAIN store :
              /\ store[path].parses
              /\ store[path].cachedAt.valid
              /\ store[path].cachedAt.ms <= now)

(* C26 witness: a run raised in step 2 after it had executed step 1: the   *)
(* entry of step 1 is there and valid, none of step 2.                     *)
C26_Witness ==
    \E p \in Procs :
        /\ run[p].pc = "catch"
        /\ last.ev = "throw" /\ last.ticker = "step2"
        /\ run[p].executed = {1}
        /\ ValidEntries(store, now, run[p].today, run[p].schedule) = {1}

-----------------------------------------------------------------------------
(* Two drivers at once: runDailyAnalysis for the morning RunKey in one     *)
(* process and runAnalysisWithLogging for the evening RunKey in the other, *)
(* their steps interleaved in any order, within one hour.  No ticker is    *)
(* recommended here: the analysis answers HOLD.                            *)

MaxPairRuns == 3

PairKind(p) == IF p = "p1" THEN "daily" ELSE "logging"
PairSchedule(p) == IF p = "p1" THEN "morning" ELSE "evening"

PairStep(p) ==
    \/ StartRunWithin(p, PairKind(p), PairSchedule(p), FALSE, MaxPairRuns)
    \/ Step1(p)
    \/ Step2(p)
    \/ Step3(p)
    \/ Step4(p)
    \/ Step4Ticker(p, TRUE, TRUE, TRUE, HoldAnalysis, FALSE)
    \/ Step4Empty(p)
    \/ Step5(p)
    \/ Step6(p, TRUE)
    \/ ClearCache(p)
    \/ Complete(p)
    \/ EndJob(p)
    \/ (run[p].pc \in {"step2", "step3", "step4"} /\ Throw(p))
    \/ Catch(p)

NextPair == \E p \in Procs : PairStep(p)

SpecPair == Init /\ [][NextPair]_vars

(* The files of one RunKey.                                                *)
OwnEntries(st, date, schedule) ==
    [path \in {q \in DOMAIN st : q[1] = date /\ q[3] = schedule} |-> st[path]]

(* The empty default of step k.                                            *)
DefaultOf(k) == CASE k = 1 -> NoCrawl [] k = 2 -> NoExtraction [] OTHER -> <<>>

(* The process whose run the step taken belongs to.                        *)
Acted(p) == run'[p] # run[p]

(* C27: a step of a run leaves every file of every other RunKey as it was, *)
(* and the resume point it computes, the payloads it replays and the       *)
(* files it clears are those of the files of its own RunKey alone.         *)
C27_RunsOfDifferentKeysDoNotInterfere ==
    [][\A p \in Procs :
          Acted(p) =>
             LET r == IF run[p].pc = "idle" THEN run'[p] ELSE run[p]
                 own == OwnEntries(store, r.today, r.schedule)
             IN
             /\ \A path \in DOMAIN store \cup DOMAIN store' :
                   (path[1] # r.today \/ path[3] # r.schedule) =>
                       /\ path \in DOMAIN store
                       /\ path \in DOMAIN store'
                       /\ store'[path] = store[path]
             /\ last'.ev = "start" =>
                   run'[p].resumeFrom =
                       getResumeStep(own, now, r.today, r.schedule, CACHEABLE_STEPS)
             /\ last'.ev = "replay" =>
                   PayloadOf(run'[p], last'.step) =
                       OrElse(getStepCache(own, now, r.today, r.schedule, last'.step),
                              DefaultOf(last'.step))
             /\ last'.ev = "exec" =>
                   DOMAIN OwnEntries(store', r.today, r.schedule) =
                       DOMAIN own \cup {<<r.today, "_", r.schedule, "_step", last'.step,
                                          ".json">>}
             /\ last'.ev = "clear" =>
                   DOMAIN OwnEntries(store', r.today, r.schedule) = {}]_vars

(* C27 witness: the morning run resumed at step 4 from the entries of a    *)
(* failed run and still has them, while the evening run, started in        *)
(* between, has written and cleared its own.                               *)
C27_Witness ==
    /\ run["p1"].resumeFrom = 4
    /\ run["p1"].pc = "step4"
    /\ run["p1"].topTickers # <<>>
    /\ \A k \in 1..CACHEABLE_STEPS : PathOf(run["p1"], k) \in DOMAIN store
    /\ run["p2"].pc = "complete"
    /\ run["p2"].executed = 1..CACHEABLE_STEPS
    /\ run["p2"].jobId < run["p1"].jobId

(* The Recommendations a pass could not price: open before it, no quote.   *)
Unpriced ==
    {i \in 1..Len(last.before) :
        /\ last.before[i].status \in OpenStatuses
        /\ last.priceMap[last.before[i].ticker] = 0}

(* The quote of Recommendation i meets a condition of its status.          *)
TransitionDue(i) ==
    \/ last.before[i].status = "pending" /\ (EntryCondition(i) \/ ExpiryCondition(i))
    \/ last.before[i].status = "entry_hit"
          /\ (TargetCondition(i) \/ StopCondition(i) \/ ExpiryCondition(i))

(* C28: a tracking pass keeps every Recommendation; those of a ticker      *)
(* without a price are exactly as before; every open Recommendation of a   *)
(* ticker with a price has been evaluated, and when a condition of its     *)
(* status is met its new status and the price are stored, whichever other  *)
(* tickers had no price.                                                   *)
C28_MissingPriceSkipsOnlyItsTicker ==
    last.ev = "pass" =>
        /\ Len(recs) = Len(last.before)
        /\ \A i \in Unpriced : recs[i] = last.before[i]
        /\ \A i \in Evaluated :
              IF TransitionDue(i)
              THEN /\ recs[i].status # last.before[i].status
                   /\ recs[i].exitPrice = QuoteOf(i)
              ELSE recs[i] = last.before[i]

(* C28 witness: of two open Recommendations of different tickers, the one  *)
(* without a price is unchanged although its holding period is over, and   *)
(* the other one has moved on.                                             *)
C28_Witness ==
    /\ last.ev = "pass"
    /\ \E i \in Unpriced, j \in Evaluated :
          /\ last.before[i].ticker # last.before[j].ticker
          /\ DaysActiveOf(i) > last.before[i].maxHoldDays
          /\ recs[i] = last.before[i]
          /\ recs[j].status # last.before[j].status

(* The number of steps a run at position pc has behind it.                 *)
StepsBehind(r) ==
    CASE r.pc = "step1" -> 0
      [] r.pc = "step2" -> 1
      [] r.pc = "step3" -> 2
      [] r.pc \in {"step4", "loop"} -> 3
      [] r.pc = "step5" -> 4
      [] r.pc = "step6" -> 5
      [] OTHER -> IF r.kind = "logging" THEN 6 ELSE 5

SavedTickers(id) == {recs[k].ticker : k \in InsertedBy(id)}

(* C30: no ticker is both on the avoid list of a run and saved by that     *)
(* run; an iteration that added its ticker to the avoid list had an AVOID  *)
(* analysis and saved nothing, an iteration that saved its ticker added    *)
(* nothing, an iteration whose analysis was not AVOID added nothing; only  *)
(* runAnalysisWithLogging adds, and only tickers it has processed.         *)
C30_AvoidedIsNeverSaved ==
    \A p \in Procs :
        LET r == run[p] IN
        r.pc # "idle" =>
            /\ r.avoided \cap SavedTickers(r.jobId) = {}
            /\ r.kind = "daily" => r.avoided = {}
            /\ r.avoided \subseteq {r.seen[i] : i \in 1..Len(r.seen)}
            /\ Cardinality(r.avoided) + r.nrec <= Len(r.seen)
            /\ (last.ev \in IterationEvents /\ last.job = r.jobId) =>
                  /\ last.ev = "avoid" <=> last.ticker \in r.avoided
                  /\ last.ticker \in r.avoided =>
                        /\ ~last.before.analysis.isNull
                        /\ last.before.analysis.action = "AVOID"
                        /\ last.ticker \notin SavedTickers(r.jobId)

(* C30 witness: a run of runAnalysisWithLogging has a ticker on its avoid  *)
(* list and has saved another one, after an AVOID analysis.                *)
C30_Witness ==
    \E p \in Procs :
        /\ run[p].kind = "logging"
        /\ last.ev = "avoid"
        /\ last.ticker \in run[p].avoided
        /\ SavedTickers(run[p].jobId) # {}
        /\ Cardinality(run[p].avoided) = 2

-----------------------------------------------------------------------------
(* GET /api/history: the pagination of handleHistory, applied to query     *)
(* strings and totals                                                      *)

(* parseInt(text, 10) on the query texts of the model: the leading integer *)
(* of the text, NaN when there is none.                                    *)
parseInt(text) ==
    CASE text = "-3" -> Num(-3)
      [] text = "0" -> Num(0)
      [] text = "1" -> Num(1)
      [] text = "2" -> Num(2)
      [] text = "7" -> Num(7)
      [] text = "20" -> Num(20)
      [] text = "100" -> Num(100)
      [] text = "101" -> Num(101)
      [] text = "250" -> Num(250)
      [] text = "2.9" -> Num(2)
      [] text = "12px" -> Num(12)
      [] OTHER -> NaN

MathMax(a, b) == IF a.nan \/ b.nan THEN NaN ELSE IF a.v >= b.v THEN a ELSE b
MathMin(a, b) == IF a.nan \/ b.nan THEN NaN ELSE IF a.v <= b.v THEN a ELSE b
Times(a, b) == IF a.nan \/ b.nan THEN NaN ELSE Num(a.v * b.v)

(* Math.ceil(a / b) for a >= 0; a / 0 is Infinity or, for 0 / 0, NaN, and  *)
(* the model has no Infinity, so b = 0 gives NaN here.                     *)
MathCeilDiv(a, b) ==
    IF a.nan \/ b.nan \/ b.v = 0 THEN NaN
    ELSE IF b.v > 0 THEN Num((a.v + b.v - 1) \div b.v)
    ELSE Num(-((a.v) \div (-b.v)))

handleHistoryNoCap(pageParam, pageSizeParam, total) ==
    LET paramsPage == parseInt(OrElse(pageParam, "1"))
        paramsPageSize == parseInt(OrElse(pageSizeParam, "20"))
        page == MathMax(Num(1), paramsPage)
        pageSize == MathMax(Num(1), paramsPageSize)
        offset == Times(Minus(page, Num(1)), pageSize)
    IN [page |-> page, pageSize |-> pageSize, offset |-> offset, total |-> total,
        totalPages |-> MathCeilDiv(Num(total), pageSize)]

(* handleHistory: the page, page size and offset it queries with and the   *)
(* pagination block of its response.                                       *)
handleHistory(pageParam, pageSizeParam, total) ==
    LET paramsPage == parseInt(OrElse(pageParam, "1"))
        paramsPageSize == parseInt(OrElse(pageSizeParam, "20"))
        page == MathMax(Num(1), paramsPage)
        pageSize == MathMin(Num(100), MathMax(Num(1), paramsPageSize))
        offset == Times(Minus(page, Num(1)), pageSize)
    IN [page |-> page, pageSize |-> pageSize, offset |-> offset, total |-> total,
        totalPages |-> MathCeilDiv(Num(total), pageSize)]

(* Texts of the query parameters page and pageSize.                        *)
IntegerTexts == {"-3", "0", "1", "2", "7", "100", "101", "250"}
QueryTexts == IntegerTexts \cup {"2.9", "12px", "abc", ""}

(* url.searchParams.get(name): null when the parameter is absent.          *)
NoParam == [some |-> FALSE, v |-> ""]

QueryParams == {NoParam} \cup {Some(text) : text \in QueryTexts}

(* Numbers of rows that match the filters.                                 *)
HistoryTotals == {0, 1, 20, 21, 205}

HistoryCall(pageParam, pageSizeParam, total) ==
    /\ last.ev # "history"
    /\ last' = [ev |-> "history", pageParam |-> pageParam,
                pageSizeParam |-> pageSizeParam,
                pagination |-> handleHistory(pageParam, pageSizeParam, total)]
    /\ UNCHANGED <<now, store, recs, jobs, run, ticks, ops>>

NextHistory ==
    \E pageParam \in QueryParams, pageSizeParam \in QueryParams, total \in HistoryTotals :
        HistoryCall(pageParam, pageSizeParam, total)

SpecHistory == Init /\ [][NextHistory]_vars

(* The parameter is absent or an integer.                                  *)
IntegerOrAbsent(param) == ~param.some \/ param.v \in IntegerTexts

(* The integer a parameter stands for, or its default.                     *)
GivenOr(param, default) ==
    IF ~param.some THEN default
    ELSE CASE param.v = "-3" -> -3 [] param.v = "0" -> 0 [] param.v = "1" -> 1
           [] param.v = "2" -> 2 [] param.v = "7" -> 7 [] param.v = "100" -> 100
           [] param.v = "101" -> 101 [] OTHER -> 250

(* C31: for integer or absent page and pageSize, handleHistory uses the    *)
(* page given, or 1 when it is absent or below 1, and the page size given, *)
(* or 20 when absent, brought into 1..100; the offset is (page - 1) *      *)
(* pageSize and totalPages is the least number of pages of that size that  *)
(* hold total rows.                                                        *)
C31_PaginationIsClamped ==
    (/\ last.ev = "history"
     /\ IntegerOrAbsent(last.pageParam)
     /\ IntegerOrAbsent(last.pageSizeParam)) =>
        LET g == last.pagination
            page == GivenOr(last.pageParam, 1)
            pageSize == GivenOr(last.pageSizeParam, 20)
        IN
        /\ ~g.page.nan /\ ~g.pageSize.nan /\ ~g.offset.nan /\ ~g.totalPages.nan
        /\ g.page.v = IF page < 1 THEN 1 ELSE page
        /\ g.pageSize.v = IF pageSize < 1 THEN 1 ELSE IF pageSize > 100 THEN 100
                          ELSE pageSize
        /\ g.offset.v = (g.page.v - 1) * g.pageSize.v
        /\ g.totalPages.v * g.pageSize.v >= g.total
        /\ (g.totalPages.v - 1) * g.pageSize.v < g.total \/ g.totalPages.v = 0

(* C31 witness: page 7 with pageSize 250 over 205 rows is served as page 7 *)
(* of 3 pages of 100, from offset 600.                                     *)
C31_Witness ==
    /\ last.ev = "history"
    /\ last.pageParam = Some("7")
    /\ last.pageSizeParam = Some("250")
    /\ last.pagination.pageSize = Num(100)
    /\ last.pagination.offset = Num(600)
    /\ last.pagination.totalPages = Num(3)

-----------------------------------------------------------------------------
(* The guard of runDailyAnalysis                                           *)

(* The step that has just been taken started a job for a call of           *)
(* runDailyAnalysis without force.                                         *)
StartedUnforcedDaily ==
    /\ last'.ev = "start"
    /\ jobs' # jobs
    /\ jobs'[Len(jobs')].kind = "daily"
    /\ ~jobs'[Len(jobs')].force

(* C32: a call of runDailyAnalysis without force, for a schedule that has  *)
(* a completed job today, returns success = false with jobId 0, zero       *)
(* counts and the single error 'already completed', and changes nothing:   *)
(* no job is started, the step cache, the recommendations and every run    *)
(* are as before; and no unforced call starts a job for such a schedule.   *)
C32_SkippedRunChangesNothing ==
    [][/\ StartedUnforcedDaily =>
              ~hasJobRunToday(jobs, last'.schedule, last'.date)
       /\ last'.ev = "skipped" =>
              /\ hasJobRunToday(jobs, last'.schedule, last'.date)
              /\ last'.result = JobResult(FALSE, 0, 0, 0, <<"already completed">>)
              /\ last'.job = 0
              /\ UNCHANGED <<now, store, recs, jobs, run, ops>>]_vars

(* C32 witness: a call was skipped for a schedule whose job of today is    *)
(* completed, with recommendations and a job table to leave alone.         *)
C32_Witness ==
    /\ last.ev = "skipped"
    /\ hasJobRunToday(jobs, last.schedule, last.date)
    /\ last.result.success = FALSE
    /\ Len(jobs) = 1

-----------------------------------------------------------------------------
(* Two callers of runDailyAnalysis: the scheduler and a second invocation  *)
(* call it for the morning schedule without force, each call made whenever *)
(* its caller is idle, the steps of the two runs interleaved at their      *)
(* awaits.                                                                 *)

MaxRaceRuns == 2

RaceStep(p) ==
    \/ StartCall(p, "daily", "morning", FALSE, MaxRaceRuns)
    \/ Step1(p)
    \/ Step2(p)
    \/ Step3(p)
    \/ Step4(p)
    \/ Step4Ticker(p, TRUE, TRUE, TRUE, BuyAnalysis, FALSE)
    \/ Step4Empty(p)
    \/ Step5(p)
    \/ ClearCache(p)
    \/ Complete(p)
    \/ (run[p].pc \in {"step2", "step3", "step4"} /\ Throw(p))
    \/ Catch(p)

NextRace == \E p \in Procs : RaceStep(p)

SpecRace == Init /\ [][NextRace]_vars

(* The run is executing the pipeline for a call without force.             *)
ExecutesUnforced(r) == r.pc # "idle" /\ r.kind = "daily" /\ ~r.force

(* C33: of two calls of runDailyAnalysis without force for the same        *)
(* schedule and day, at most one is executing the pipeline at any time:    *)
(* no two runs of one RunKey are in flight together.                       *)
C33_AtMostOneRunOfARunKey ==
    \A p \in Procs, q \in Procs :
        (/\ p # q
         /\ ExecutesUnforced(run[p])
         /\ ExecutesUnforced(run[q])
         /\ run[p].today = run[q].today)
            => run[p].schedule # run[q].schedule

-----------------------------------------------------------------------------
(* Runs with nothing to report: the portals may have no new article, the   *)
(* extraction no ticker, the ranking no candidate.  One caller starts runs *)
(* of either kind for the morning schedule, a failed run is followed by a  *)
(* rerun within the hour.                                                  *)

MaxEmptyRuns == 2

(* crawlAllPortals found no new article.                                   *)
ZeroCrawl == [totalNewArticles |-> 0, successfulPortals |-> 1]

EmptyCrawls == CrawlResults \cup {ZeroCrawl}

EmptyStep(p) ==
    \/ \E k \in Kinds : StartRunWithin(p, k, "morning", FALSE, MaxEmptyRuns)
    \/ Step1Crawling(p, EmptyCrawls)
    \/ Step2(p)
    \/ Step3(p)
    \/ Step4(p)
    \/ Step4Ticker(p, TRUE, TRUE, TRUE, BuyAnalysis, FALSE)
    \/ Step4Empty(p)
    \/ Step5(p)
    \/ Step6(p, TRUE)
    \/ ClearCache(p)
    \/ Complete(p)
    \/ EndJob(p)
    \/ (run[p].pc \in {"step2", "step3", "step4", "loop", "step5"} /\ Throw(p))
    \/ Catch(p)

NextEmpty == EmptyStep("p1")

SpecEmpty == Init /\ [][NextEmpty]_vars

(* The run is past step 4, past step 5.                                    *)
PastStep4(r) == r.pc \in {"step5", "step6", "clear", "complete", "endJob"}
PastStep5(r) == r.pc \in {"step6", "clear", "complete", "endJob"}

(* C34: a run whose ranked list is empty inserts no recommendation, leaves *)
(* the loop of step 4 for step 5 without an error, has made the tracking   *)
(* pass when it is past step 5, and a run that found no ticker returns     *)
(* success with zero recommendations; a run that starts with a file of     *)
(* steps 1..k within the TTL, whatever the payloads (a crawl of zero       *)
(* articles, an empty list), resumes after k and executes none of them.    *)
C34_EmptyOutputIsValid ==
    /\ [](\A p \in Procs :
            LET r == run[p] IN
            /\ (PastStep4(r) /\ r.topTickers = <<>>) =>
                   /\ r.nrec = 0
                   /\ InsertedBy(r.jobId) = {}
                   /\ 4 \in r.ran
                   /\ r.errors = <<>>
            /\ (PastStep5(r) /\ r.topTickers = <<>>) => 5 \in r.ran
            /\ (r.pc # "idle" /\ 1..CACHEABLE_STEPS \subseteq r.validAtStart) =>
                   r.executed = {})
    /\ [](( /\ last.ev = "complete"
            /\ last.result.value = "result"
            /\ last.result.tickersFound = 0) =>
              /\ last.result.success
              /\ last.result.recommendationsGenerated = 0
              /\ jobs[last.job].status = "completed")
    /\ [][\A p \in Procs :
            /\ (run[p].pc = "loop" /\ run[p].topTickers = <<>> /\ run'[p] # run[p]
                   /\ last'.ev # "throw") => run'[p].pc = "step5"
            /\ last'.ev = "start" =>
                   \A k \in 1..CACHEABLE_STEPS :
                      (\A j \in 1..k :
                          getStepCache(store, now, last'.date, last'.schedule, j).some)
                         => run'[p].pc = "idle" \/ run'[p].resumeFrom > k]_vars

(* C34 witness: a run resumed after step 3 from the files of a failed run  *)
(* that hold a crawl of zero articles and an empty ranked list, went       *)
(* through step 4 and step 5 with no recommendation and no step re-run.    *)
C34_Witness ==
    LET r == run["p1"] IN
    /\ r.pc = "complete"
    /\ r.resumeFrom = CACHEABLE_STEPS + 1
    /\ r.crawlStats = ZeroCrawl
    /\ r.topTickers = <<>>
    /\ r.defaulted = {}
    /\ r.executed = {}
    /\ {4, 5} \subseteq r.ran
    /\ InsertedBy(r.jobId) = {}

-----------------------------------------------------------------------------
(* Fresh and cached steps of one run                                       *)

(* The cacheable steps a run has gone through, and those of them it served *)
(* from the cache branch.                                                  *)
StepsDone(r) == {r.trail[i] : i \in DOMAIN r.trail} \cap (1..CACHEABLE_STEPS)
StepsReplayed(r) == StepsDone(r) \ r.executed

(* C35: in every run, a cacheable step that follows an executed step is    *)
(* executed too, and a step is served from the cache only when every step  *)
(* before it was; so the executed steps are exactly those from the resume  *)
(* point on, whatever entries of later steps are valid when the run starts.*)
C35_FreshUpstreamMeansFreshDownstream ==
    \A p \in Procs :
        LET r == run[p] IN
        r.pc # "idle" =>
           /\ \A k \in r.executed, j \in StepsDone(r) : j > k => j \in r.executed
           /\ \A k \in StepsReplayed(r) : 1..(k - 1) \subseteq StepsReplayed(r)
           /\ r.executed = {k \in StepsDone(r) : k >= r.resumeFrom}

(* C35 witness: a run started when the entry of step 1 had expired and     *)
(* those of steps 2 and 3 were still within the TTL; it executed all three *)
(* steps.                                                                  *)
C35_Witness ==
    \E p \in Procs :
        /\ run[p].pc = "step4"
        /\ run[p].validAtStart = {2, 3}
        /\ run[p].resumeFrom = 1
        /\ run[p].executed = {1, 2, 3}

-----------------------------------------------------------------------------
(* The terminal outcome of a job                                           *)

(* C36: a run records one terminal outcome for its job: completion and     *)
(* failure are each recorded for a job that has no outcome yet, and a run  *)
(* that ends leaves its job completed or failed.                           *)
C36_ExactlyOneOutcome ==
    [][/\ last'.ev \in {"complete", "fail"} =>
              jobs[last'.job].status = "running"
       /\ \A p \in Procs :
              (run[p].pc # "idle" /\ run'[p].pc = "idle") =>
                 jobs'[run[p].jobId].status \in {"completed", "failed"}]_vars

-----------------------------------------------------------------------------
(* One tracking pass: what it evaluates and what it reports                *)

(* The recommendations the pass changed.                                   *)
ChangedByPass == {i \in 1..Len(recs) : recs[i] # last.before[i]}

(* C37: a tracking pass changes only recommendations that were open when   *)
(* it started, each by the one transition checkStatusChange gives for its  *)
(* status at the start (a pending one becomes entry_hit or expired, never  *)
(* a status that follows entry_hit); it reports one status update for each *)
(* recommendation it changed, updated is their number, checked is the      *)
(* number open at the start, and updated <= checked.                       *)
C37_OneTransitionPerPass ==
    last.ev = "pass" =>
        LET open == getActiveRecommendations(last.before)
            res == last.result
        IN
        /\ Len(recs) = Len(last.before)
        /\ ChangedByPass \subseteq open
        /\ \A i \in ChangedByPass :
              /\ recs[i].status =
                    checkStatusChange(last.before[i], last.priceMap[recs[i].ticker],
                        calculateDaysActive(recs[i].recommendationDate, now))
              /\ last.before[i].status = "pending" =>
                    recs[i].status \in {"entry_hit", "expired"}
        /\ res.checked = Cardinality(open)
        /\ res.updated = Len(res.statusUpdates)
        /\ res.updated <= res.checked
        /\ {res.statusUpdates[n].id : n \in 1..Len(res.statusUpdates)} = ChangedByPass
        /\ \A n \in 1..Len(res.statusUpdates) :
              LET u == res.statusUpdates[n] IN
              /\ u.previousStatus = last.before[u.id].status
              /\ u.newStatus = recs[u.id].status
              /\ \A m \in 1..Len(res.statusUpdates) :
                    res.statusUpdates[m].id = u.id => m = n

(* C37 witness: a pass with a quote below the stop found a pending         *)
(* recommendation and left it at entry_hit, though the same quote meets    *)
(* the stop condition of an entered position; it checked two and updated   *)
(* one.                                                                    *)
C37_Witness ==
    /\ last.ev = "pass"
    /\ last.result.checked = 2
    /\ last.result.updated = 1
    /\ \E i \in ChangedByPass :
          /\ last.before[i].status = "pending"
          /\ recs[i].status = "entry_hit"
          /\ last.priceMap[recs[i].ticker] <= recs[i].stopLoss

(* The open recommendations of a ticker when the pass started.             *)
OpenOf(ticker) ==
    {i \in getActiveRecommendations(last.before) : last.before[i].ticker = ticker}

(* C38: a tracking pass asks for the quote of each ticker that has an open *)
(* recommendation once and of no other ticker, and every open              *)
(* recommendation of a ticker is evaluated against the one price of that   *)
(* ticker: its new status, its exit price and its P&L come from that       *)
(* price.                                                                  *)
C38_OneQuotePerTicker ==
    last.ev = "pass" =>
        /\ \A m \in 1..Len(last.fetched), n \in 1..Len(last.fetched) :
              last.fetched[m] = last.fetched[n] => m = n
        /\ {last.fetched[n] : n \in 1..Len(last.fetched)}
              = getActiveTickers(last.before)
        /\ \A ticker \in getActiveTickers(last.before) :
              LET price == last.priceMap[ticker] IN
              \A i \in OpenOf(ticker) :
                 LET newStatus == checkStatusChange(last.before[i], price,
                                      calculateDaysActive(recs[i].recommendationDate, now))
                 IN IF price = 0 \/ newStatus = "none"
                    THEN recs[i] = last.before[i]
                    ELSE /\ recs[i].status = newStatus
                         /\ recs[i].exitPrice = price
                         /\ recs[i].hasPnl =>
                               recs[i].pnlBp = calculatePnlPct(recs[i].entryPrice, price)

(* C38 witness: two open recommendations of one ticker, one pending and    *)
(* one entered, were both changed by a pass that fetched one quote, and    *)
(* carry the same exit price.                                              *)
C38_Witness ==
    /\ last.ev = "pass"
    /\ Len(last.fetched) = 1
    /\ ChangedByPass = {1, 2}
    /\ recs[1].ticker = recs[2].ticker
    /\ last.before[1].status # last.before[2].status
    /\ recs[1].exitPrice = recs[2].exitPrice
    /\ recs[1].hasPnl

-----------------------------------------------------------------------------
(* lib/avoid-cache: the file of the avoid list, under any sequence of      *)
(* additions and clears while time passes.  The file is kept in store      *)
(* under its path.                                                         *)

AVOID_CACHE_TTL_MS == 24 * 60 * 60 * 1000

AVOID_CACHE_PATH == <<"avoid-cache.json">>

(* new Date(0): the clock of the model starts long after it, further than  *)
(* any TTL.                                                                *)
DATE_ZERO_MS == 0 - 20 * MS_PER_DAY

MaxAvoidOps == 3
MaxAvoidTicks == 2

AvoidTickers == {"BBCA", "TLKM"}
AvoidScores == {40, 45}
AvoidTickDeltas == {1, AVOID_CACHE_TTL_MS}

AvoidItem(ticker, score, t) ==
    [ticker |-> ticker, overallScore |-> score, detectedAt |-> t]

AvoidCacheFile(updatedAt, items) == [updatedAt |-> updatedAt, items |-> items]

writeToDisk(st, data) ==
    [p \in DOMAIN st \cup {AVOID_CACHE_PATH} |->
        IF p = AVOID_CACHE_PATH THEN data ELSE st[p]]

setAvoidItems(st, t, items) == writeToDisk(st, AvoidCacheFile(toISOString(t), items))

getAvoidItems(st, t) ==
    IF AVOID_CACHE_PATH \notin DOMAIN st THEN <<>>
    ELSE LET data == st[AVOID_CACHE_PATH]
             age == Minus(Num(t), DateGetTime(data.updatedAt))
         IN IF Gt(age, Num(AVOID_CACHE_TTL_MS)) THEN <<>> ELSE data.items

(* existing.filter((i) => i.ticker !== ticker)                             *)
RECURSIVE FilterOtherTickers(_, _)
FilterOtherTickers(items, ticker) ==
    IF items = <<>> THEN <<>>
    ELSE IF Head(items).ticker # ticker
         THEN <<Head(items)>> \o FilterOtherTickers(Tail(items), ticker)
    ELSE FilterOtherTickers(Tail(items), ticker)

addAvoidItemUnfiltered(st, t, item) ==
    setAvoidItems(st, t, Append(getAvoidItems(st, t), item))

(* addAvoidItem(item) on the file.                                         *)
addAvoidItemToFile(st, t, item) ==
    LET existing == getAvoidItems(st, t)
        filtered == FilterOtherTickers(existing, item.ticker)
    IN setAvoidItems(st, t, Append(filtered, item))

clearAvoidItems(st) ==
    writeToDisk(st, AvoidCacheFile(toISOString(DATE_ZERO_MS), <<>>))

(* The call last made, with the item last added for each ticker (none:     *)
(* the empty sequence) and whether the list was cleared and not added to   *)
(* since.                                                                  *)
AvoidEvent(ev, ticker, latest, cleared) ==
    [ev |-> ev, ticker |-> ticker, latest |-> latest, cleared |-> cleared]

InitAvoid ==
    /\ now = 0
    /\ store = <<>>
    /\ recs = <<>>
    /\ jobs = <<>>
    /\ run = [p \in Procs |-> IdleRun]
    /\ last = AvoidEvent("init", "", [t \in AvoidTickers |-> <<>>], FALSE)
    /\ ticks = 0
    /\ ops = 0

AvoidAdd(ticker, score) ==
    LET item == AvoidItem(ticker, score, now) IN
    /\ ops < MaxAvoidOps
    /\ ops' = ops + 1
    /\ store' = addAvoidItemToFile(store, now, item)
    /\ last' = AvoidEvent("add", ticker, [last.latest EXCEPT ![ticker] = <<item>>],
                          FALSE)
    /\ UNCHANGED <<now, recs, jobs, run, ticks>>

AvoidClear ==
    /\ store' = clearAvoidItems(store)
    /\ last' = AvoidEvent("clear", "", last.latest, TRUE)
    /\ UNCHANGED <<now, recs, jobs, run, ticks, ops>>

AvoidTick(d) ==
    /\ ticks < MaxAvoidTicks
    /\ ticks' = ticks + 1
    /\ now' = now + d
    /\ last' = AvoidEvent("tick", "", last.latest, last.cleared)
    /\ UNCHANGED <<store, recs, jobs, run, ops>>

NextAvoid ==
    \/ \E ticker \in AvoidTickers, score \in AvoidScores : AvoidAdd(ticker, score)
    \/ AvoidClear
    \/ \E d \in AvoidTickDeltas : AvoidTick(d)

SpecAvoid == InitAvoid /\ [][NextAvoid]_vars

(* C39: whatever additions and clears were made, the list getAvoidItems    *)
(* returns has at most one item per ticker, and each item is the one last  *)
(* added for its ticker; right after an addition the item added is in it;  *)
(* from a clear to the next addition it is empty; and it is empty when the *)
(* file is older than 24 hours.                                            *)
C39_AvoidListHoldsLatestPerTicker ==
    LET items == getAvoidItems(store, now) IN
    /\ \A m \in 1..Len(items), n \in 1..Len(items) :
          items[m].ticker = items[n].ticker => m = n
    /\ \A n \in 1..Len(items) : last.latest[items[n].ticker] = <<items[n]>>
    /\ last.ev = "add" =>
          \E n \in 1..Len(items) : <<items[n]>> = last.latest[last.ticker]
    /\ last.cleared => items = <<>>
    /\ (/\ AVOID_CACHE_PATH \in DOMAIN store
        /\ now - store[AVOID_CACHE_PATH].updatedAt.ms > AVOID_CACHE_TTL_MS) =>
          items = <<>>

(* C39 witness: after three additions for two tickers, the last one        *)
(* replacing an item of its ticker that was in the list, the list holds    *)
(* two items, the one just added last.                                     *)
C39_Witness ==
    LET items == getAvoidItems(store, now) IN
    /\ last.ev = "add"
    /\ ops = MaxAvoidOps
    /\ Len(items) = 2
    /\ items[1].ticker # last.ticker
    /\ items[1].detectedAt = 0
    /\ items[2].overallScore = 45
    /\ items[2].detectedAt = 1

-----------------------------------------------------------------------------
(* The two drivers side by side.  A first run of either kind fails and     *)
(* leaves its cache files and recommendations, while time passes.  From    *)
(* that state runDailyAnalysis(schedule, true) runs with one script of     *)
(* collaborator responses; the cache and the database are then put back as *)
(* they were and runAnalysisWithLogging runs with the same script.  ops    *)
(* holds the experiment: its phase, the script, the state both runs start  *)
(* from and the state the first one left.                                  *)

MaxTwinRuns == 3

TwinAnalyses == {BuyAnalysis, AvoidAnalysis}
TwinFailPoints == {"none", "step2", "step4", "loop", "step5"}

(* The responses of the collaborators: the crawl summary, the extraction,  *)
(* whether a quote is found and what analyzeStock answers for every        *)
(* ticker, the price of the tracking pass (0: none), and the position at   *)
(* which a collaborator raises.                                            *)
TwinScripts ==
    [crawl : CrawlResults, extraction : ExtractionResults, quote : BOOLEAN,
     analysis : TwinAnalyses, price : Prices \cup {0}, failAt : TwinFailPoints]

NoScript ==
    [crawl |-> NoCrawl, extraction |-> NoExtraction, quote |-> FALSE,
     analysis |-> BuyAnalysis, price |-> 0, failAt |-> "none"]

TwinState(phase, script, store0, recs0, storeA, recsA) ==
    [phase |-> phase, script |-> script, store0 |-> store0, recs0 |-> recs0,
     storeA |-> storeA, recsA |-> recsA]

InitTwin ==
    /\ now = 0
    /\ store = <<>>
    /\ recs = <<>>
    /\ jobs = <<>>
    /\ run = [p \in Procs |-> IdleRun]
    /\ last = NoEvent
    /\ ticks = 0
    /\ ops = TwinState("seed", NoScript, <<>>, <<>>, <<>>, <<>>)

(* The first run, of either kind, which fails.                             *)
SeedStep ==
    \/ \E k \in Kinds : StartCall("p1", k, "morning", k = "daily", 1)
    \/ Step1("p1")
    \/ Step2("p1")
    \/ Step3("p1")
    \/ Step4("p1")
    \/ Step4Ticker("p1", TRUE, TRUE, TRUE, BuyAnalysis, FALSE)
    \/ Step4Empty("p1")
    \/ (run["p1"].pc \in {"step2", "step3", "step4", "loop", "step5"} /\ Throw("p1"))
    \/ Catch("p1")
    \/ \E d \in TickDeltas : Tick(d)

(* The experiment starts from the present state, with a script.            *)
TwinBegin(script) ==
    /\ ops.phase = "seed"
    /\ run["p1"].pc = "idle"
    /\ ops' = TwinState("A", script, store, recs, <<>>, <<>>)
    /\ last' = NoEvent
    /\ UNCHANGED <<now, store, recs, jobs, run, ticks>>

(* A run has come to completeJobExecution or to its catch block.           *)
Parked(r) == r.pc \in {"complete", "catch"}

(* One step of a run whose collaborators answer by the script.             *)
TwinRunStep(p, script) ==
    \/ /\ run[p].pc # script.failAt
       /\ \/ Step1Crawling(p, {script.crawl})
          \/ /\ Step2(p)
             /\ run[p].resumeFrom <= 2 => run'[p].tickerResult = script.extraction
          \/ Step3(p)
          \/ Step4(p)
          \/ Step4Ticker(p, script.quote, TRUE, TRUE, script.analysis, FALSE)
          \/ Step4Empty(p)
          \/ Step5Quoted(p, [t \in getActiveTickers(recs) |-> script.price])
          \/ Step6(p, TRUE)
          \/ ClearCache(p)
    \/ /\ run[p].pc = script.failAt
       /\ Throw(p)

(* The state the first run left is kept, the cache and the database are    *)
(* put back.                                                               *)
TwinSwap ==
    /\ ops.phase = "A"
    /\ Parked(run["p1"])
    /\ ops' = [ops EXCEPT !.phase = "B", !.storeA = store, !.recsA = recs]
    /\ store' = ops.store0
    /\ recs' = ops.recs0
    /\ last' = NoEvent
    /\ UNCHANGED <<now, jobs, run, ticks>>

NextTwin ==
    \/ ops.phase = "seed" /\ SeedStep
    \/ \E script \in TwinScripts : TwinBegin(script)
    \/ ops.phase = "A" /\ StartCall("p1", "daily", "morning", TRUE, 2)
    \/ ops.phase = "A" /\ TwinRunStep("p1", ops.script)
    \/ TwinSwap
    \/ ops.phase = "B" /\ StartCall("p2", "logging", "morning", FALSE, MaxTwinRuns)
    \/ ops.phase = "B" /\ TwinRunStep("p2", ops.script)

SpecTwin == InitTwin /\ [][NextTwin]_vars

(* The recommendations without the job that inserted them.                 *)
StripJob(rs) == [i \in DOMAIN rs |-> [rs[i] EXCEPT !.byJob = 0]]

(* The steps 1 to 5 of a trail.                                            *)
UpToStep5(trail) == SubSeq(trail, 1, IF Len(trail) < 5 THEN Len(trail) ELSE 5)

(* What a run did to the step cache and the database in steps 1 to 5: its  *)
(* resume point, the files it read, wrote and deleted, the payloads it     *)
(* went on with, the tickers it processed and the recommendations it       *)
(* counted.                                                                *)
Conduct(r) ==
    [pc |-> r.pc, resumeFrom |-> r.resumeFrom, validAtStart |-> r.validAtStart,
     touched |-> r.touched, executed |-> r.executed, defaulted |-> r.defaulted,
     deleted |-> r.deleted, crawlStats |-> r.crawlStats,
     tickerResult |-> r.tickerResult, topTickers |-> r.topTickers,
     seen |-> r.seen, nrec |-> r.nrec, ran |-> r.ran \cap (1..5),
     trail |-> UpToStep5(r.trail)]

IsPrefix(a, b) == Len(a) <= Len(b) /\ SubSeq(b, 1, Len(a)) = a

====
